---- MODULE Spec2Model ----
(***************************************************************************)
(* Model of the flowchart engine of app_end.py: the undo/redo history      *)
(* manager (HistoryManager), the Mermaid generator and parser, and the     *)
(* repair passes enforce_connected_flow and ensure_decision_edge_labels.   *)
(***************************************************************************)
EXTENDS Integers, Sequences, FiniteSets, TLC

VARIABLES
    undo_stack,     \* HistoryManager.undo_stack (oldest first)
    redo_stack,     \* HistoryManager.redo_stack
    op,             \* the last HistoryManager call: "init", "push", "undo", "redo"
    ret,            \* what that call returned (None for push)
    pushes,         \* number of push calls so far; the k-th push stores snapshot k
    branches,       \* number of pushes made while the redo stack was not empty
    discarded,      \* snapshots that were on the redo stack when a push cleared it
    fresh,          \* TRUE from a push until the next undo that returns an entry
    scN,            \* scenario: the number of pushes N (0 outside the scenario)
    undos,          \* scenario: undo calls made before the first redo call
    redos,          \* scenario: redo calls made after those undo calls
    mixed,          \* scenario: an undo call followed a redo call
    flow_nodes,     \* flow_state.nodes
    flow_edges,     \* flow_state.edges
    flow_direction, \* st.session_state.direction
    in_nodes,       \* the node list the passes started from
    in_edges,       \* the edge list the passes started from
    pass,           \* the passes applied to the graph so far, in order
    result,         \* what the last parse_mermaid call returned
    code,           \* the text handed to the last parse_mermaid call, as its lines
    code_text,      \* st.session_state.code_text, as its lines
    node_counter,   \* st.session_state.node_counter
    edge_counter,   \* st.session_state.edge_counter
    steps           \* the editor operations carried out in the session so far

hvars == <<undo_stack, redo_stack, op, ret, pushes, branches, discarded, fresh>>
svars == <<scN, undos, redos, mixed>>
gvars == <<flow_nodes, flow_edges, flow_direction, in_nodes, in_edges, pass, result>>
evars == <<code, code_text, node_counter, edge_counter, steps>>
vars == <<hvars, svars, gvars, evars>>

-----------------------------------------------------------------------------
(* Bounds of the model *)

\* general history: push calls, and pushes that discard a non-empty redo stack
MaxPush == 27
MaxBranch == 1
\* scenario: the largest N
MaxN == 31
\* the passes applied in a row to one graph
MaxPasses == 2
\* the edges of an input graph of each pass
MaxConnEdges == 3
MaxDecEdges == 3
MaxRtEdges == 1
\* the lines of a text handed to parse_mermaid
MaxLines == 2
\* the most edges of a graph given to the analysis
MaxAnEdges == 2
\* the most edges of an exported graph
MaxExpEdges == 2
\* the operations of an editing session
MaxOps == 3
\* the most edges of a graph given to simplify_flow_state
MaxSimpEdges == 3
\* the most edges of a graph given to detect_cycle alone
MaxCycEdges == 3

-----------------------------------------------------------------------------
(* Text.  A text is a sequence of characters; a character is a one-character *)
(* string, or the name of a character or word that is written out:           *)
(* "DOTLESS_I" (U+0131), "S_CEDILLA" (U+015F), "ARROW_L" (U+2190),           *)
(* "ARROW_R" (U+2192), "C_CEDILLA" (U+00E7), "U_UMLAUT" (U+00FC),           *)
(* "BACKTICK" (U+0060), "APOSTROPHE" (U+0027), and the                       *)
(* words of the grammar (a kind name such as "document", "flowchart",        *)
(* "graph", a direction such as "TD"), each of which stands for its letters. *)

Last(s) == s[Len(s)]
Front(s) == SubSeq(s, 1, Len(s) - 1)
Range(s) == {s[i] : i \in 1..Len(s)}

UpperCase == <<"A","B","C","D","E","F","G","H","I","J","K","L","M",
               "N","O","P","Q","R","S","T","U","V","W","X","Y","Z">>
LowerCase == <<"a","b","c","d","e","f","g","h","i","j","k","l","m",
               "n","o","p","q","r","s","t","u","v","w","x","y","z">>
Digits == <<"0","1","2","3","4","5","6","7","8","9">>

\* the characters of the model in code point order
CharOrder ==
    <<"\t", "\n", "\r", " ", "%", "(", ")", "-", ".", "/">> \o Digits
    \o <<":", "<", "=", ">", "?">> \o UpperCase \o <<"[", "\\", "]", "_">>
    \o LowerCase \o <<"{", "|", "}", "DOTLESS_I", "S_CEDILLA", "ARROW_L", "ARROW_R">>

\* the words that are written out as one character
WordAtoms ==
    {"terminal", "process", "decision", "io", "document", "multi_document",
     "data_storage", "internal_storage", "tape_data", "subprocess", "database",
     "display", "manual_operation", "merge", "manual_input", "connector",
     "comment", "loop", "function", "flowchart", "graph",
     "TD", "TB", "LR", "RL", "BT"}

\* str.lower() of one character
lower_char(c) ==
    IF \E i \in 1..Len(UpperCase) : UpperCase[i] = c
    THEN LowerCase[CHOOSE i \in 1..Len(UpperCase) : UpperCase[i] = c]
    ELSE c

\* str.lower()
lower(s) == [i \in 1..Len(s) |-> lower_char(s[i])]

\* \s of the regular expressions, str.strip() and str.split()
is_space(c) == c \in {" ", "\t", "\n", "\r"}

\* [A-Za-z0-9_\-], the characters of a node id and of a class tag
is_id_char(c) ==
    c \in (Range(UpperCase) \cup Range(LowerCase) \cup Range(Digits) \cup {"_", "-"} \cup WordAtoms)

\* \w or a Turkish letter: what normalize_label_text keeps at the start
is_word_char(c) ==
    c \in (Range(UpperCase) \cup Range(LowerCase) \cup Range(Digits) \cup {"_", "DOTLESS_I", "S_CEDILLA"})

RECURSIVE lstrip(_)
lstrip(s) == IF s # <<>> /\ is_space(Head(s)) THEN lstrip(Tail(s)) ELSE s

RECURSIVE rstrip(_)
rstrip(s) == IF s # <<>> /\ is_space(Last(s)) THEN rstrip(Front(s)) ELSE s

\* str.strip()
strip(s) == rstrip(lstrip(s))

\* re.sub(r"\s+", " ", s)
RECURSIVE collapse_spaces(_)
collapse_spaces(s) ==
    IF s = <<>> THEN <<>>
    ELSE IF is_space(Head(s))
         THEN <<" ">> \o collapse_spaces(lstrip(s))
         ELSE <<Head(s)>> \o collapse_spaces(Tail(s))

\* s[i:] starts with pat (i counted from 1)
starts_at(s, i, pat) ==
    /\ i + Len(pat) - 1 <= Len(s)
    /\ \A j \in 1..Len(pat) : s[i + j - 1] = pat[j]

\* pat in s
contains(s, pat) == \E i \in 1..(Len(s) + 1) : starts_at(s, i, pat)

\* str.replace(old, new) and re.sub of literal alternatives: scanning from the
\* left, the first of pats that starts at the position is replaced by rep
RECURSIVE replace_any(_, _, _)
replace_any(s, pats, rep) ==
    IF s = <<>> THEN <<>>
    ELSE IF \E k \in 1..Len(pats) : starts_at(s, 1, pats[k])
         THEN LET k == CHOOSE k \in 1..Len(pats) :
                           /\ starts_at(s, 1, pats[k])
                           /\ \A j \in 1..(k - 1) : ~starts_at(s, 1, pats[j])
              IN  rep \o replace_any(SubSeq(s, Len(pats[k]) + 1, Len(s)), pats, rep)
         ELSE <<Head(s)>> \o replace_any(Tail(s), pats, rep)

\* s without the characters of the set cs
remove_chars(s, cs) == SelectSeq(s, LAMBDA c : c \notin cs)

\* the longest prefix of s made of id characters
RECURSIVE id_prefix(_)
id_prefix(s) ==
    IF s # <<>> /\ is_id_char(Head(s)) THEN <<Head(s)>> \o id_prefix(Tail(s)) ELSE <<>>

\* str.split(): the words of s
RECURSIVE split_words(_)
split_words(s) ==
    LET t == lstrip(s)
        n == IF \E i \in 1..Len(t) : is_space(t[i])
             THEN (CHOOSE i \in 1..Len(t) :
                       is_space(t[i]) /\ \A j \in 1..(i - 1) : ~is_space(t[j])) - 1
             ELSE Len(t)
    IN  IF t = <<>> THEN <<>>
        ELSE <<SubSeq(t, 1, n)>> \o split_words(SubSeq(t, n + 1, Len(t)))

\* " ".join(words)
RECURSIVE join_words(_)
join_words(ws) ==
    IF ws = <<>> THEN <<>>
    ELSE IF Len(ws) = 1 THEN ws[1]
    ELSE ws[1] \o <<" ">> \o join_words(Tail(ws))

\* Python's order of two strings (code point order, a prefix first)
ord(c) == CHOOSE i \in 1..Len(CharOrder) : CharOrder[i] = c
RECURSIVE text_less(_, _)
text_less(a, b) ==
    IF b = <<>> THEN FALSE
    ELSE IF a = <<>> THEN TRUE
    ELSE IF Head(a) = Head(b) THEN text_less(Tail(a), Tail(b))
    ELSE ord(Head(a)) < ord(Head(b))

RECURSIVE SetToSeq(_)
SetToSeq(S) ==
    IF S = {} THEN <<>>
    ELSE LET x == CHOOSE x \in S : TRUE IN <<x>> \o SetToSeq(S \ {x})

\* sorted(s, key) for the strict order less of the keys: a stable sort, the
\* element at i goes behind those that are less and those that are equal and
\* stand before it
sorted_rank(s, i, less(_, _)) ==
    1 + Cardinality({j \in 1..Len(s) :
            less(s[j], s[i]) \/ (~less(s[i], s[j]) /\ j < i)})

sorted(s, less(_, _)) ==
    [k \in 1..Len(s) |-> s[CHOOSE i \in 1..Len(s) : sorted_rank(s, i, less) = k]]

-----------------------------------------------------------------------------
(* HistoryManager *)

MAX_HISTORY == 25

\* Python's None as a return value; snapshots are numbered from 1
None == 0

\* push: the undo stack after append and eviction
push_undo_noevict(u, entry) == Append(u, entry)
push_undo(u, entry) ==
    LET appended == Append(u, entry)
    IN  IF Len(appended) > MAX_HISTORY THEN Tail(appended) ELSE appended

\* push: the redo stack after the call
push_redo_keep(r) == r
push_redo(r) == <<>>

can_undo(u) == Len(u) >= 2

can_redo(r) == Len(r) > 0

\* undo: the entry returned when the call goes through
undo_ret_popped(u) == Last(u)
undo_ret(u) == Last(Front(u))

\* redo: the undo stack after a redo that goes through
redo_undo_drop(u, r) == u
redo_undo(u, r) == Append(u, Last(r))

HistoryInit ==
    /\ undo_stack = <<>>
    /\ redo_stack = <<>>
    /\ op = "init"
    /\ ret = None

push(entry) ==
    /\ undo_stack' = push_undo(undo_stack, entry)
    /\ redo_stack' = push_redo(redo_stack)
    /\ op' = "push"
    /\ ret' = None

\* undo without the floor check: pops whenever the stack is not empty
undo_nofloor ==
    /\ IF Len(undo_stack) < 1
       THEN /\ ret' = None
            /\ UNCHANGED <<undo_stack, redo_stack>>
       ELSE /\ undo_stack' = Front(undo_stack)
            /\ redo_stack' = Append(redo_stack, Last(undo_stack))
            /\ ret' = IF Len(undo_stack) = 1 THEN None ELSE undo_ret(undo_stack)
    /\ op' = "undo"

undo ==
    /\ IF ~can_undo(undo_stack)
       THEN /\ ret' = None
            /\ UNCHANGED <<undo_stack, redo_stack>>
       ELSE /\ undo_stack' = Front(undo_stack)
            /\ redo_stack' = Append(redo_stack, Last(undo_stack))
            /\ ret' = undo_ret(undo_stack)
    /\ op' = "undo"

redo ==
    /\ IF ~can_redo(redo_stack)
       THEN /\ ret' = None
            /\ UNCHANGED <<undo_stack, redo_stack>>
       ELSE /\ redo_stack' = Front(redo_stack)
            /\ undo_stack' = redo_undo(undo_stack, redo_stack)
            /\ ret' = Last(redo_stack)
    /\ op' = "redo"

-----------------------------------------------------------------------------
(* Graph model.  A node is [id, label, kind], an edge is                     *)
(* [id, source, target, label, variant]; ids and labels are texts, kinds and *)
(* variants are the strings of the source.  Position, width, colours and the *)
(* curve style (edge_type) of the editor are left out.                       *)

\* the keys of NODE_KIND
NodeKindNames ==
    {"terminal", "process", "decision", "io", "document", "multi_document",
     "data_storage", "internal_storage", "tape_data", "subprocess", "database",
     "display", "manual_operation", "merge", "manual_input", "connector",
     "comment", "loop", "function"}

Directions == {"TD", "TB", "LR", "RL", "BT"}
DEFAULT_DIRECTION == "TD"

EDGE_VARIANT_TO_ARROW ==
    [solid  |-> <<"-", "-", ">">>,
     dotted |-> <<"-", ".", "-", ">">>,
     thick  |-> <<"=", "=", ">">>,
     circle |-> <<"-", "-", "o">>,
     cross  |-> <<"-", "-", "x">>]

\* the arrows of the edge patterns, in the order of the alternation
Arrows ==
    << <<"-", "-", ">">>, <<"-", ".", "-", ">">>, <<"=", "=", ">">>,
       <<"-", "-", "o">>, <<"-", "-", "x">>, <<"<", "-", "-", ">">> >>

\* ARROW_TO_EDGE_VARIANT.get(arrow, "solid")
arrow_variant(a) ==
    IF \E v \in DOMAIN EDGE_VARIANT_TO_ARROW : EDGE_VARIANT_TO_ARROW[v] = a
    THEN CHOOSE v \in DOMAIN EDGE_VARIANT_TO_ARROW : EDGE_VARIANT_TO_ARROW[v] = a
    ELSE "solid"

\* Python's order of the variant names
VariantOrder == <<"circle", "cross", "dotted", "solid", "thick">>
variant_rank(v) == CHOOSE i \in 1..Len(VariantOrder) : VariantOrder[i] = v

\* one shape of MERMAID_NODE_TEMPLATES: delimiters, padding blanks, class tag
Shape(open, close, pad, tag) == [open |-> open, close |-> close, pad |-> pad, tag |-> tag]

MERMAID_NODE_TEMPLATES ==
    [terminal         |-> Shape(<<"(", "[">>, <<"]", ")">>, TRUE, ""),
     process          |-> Shape(<<"[">>, <<"]">>, FALSE, ""),
     io               |-> Shape(<<"[", "/">>, <<"/", "]">>, TRUE, ""),
     decision         |-> Shape(<<"{">>, <<"}">>, FALSE, ""),
     document         |-> Shape(<<"[">>, <<"]">>, FALSE, "document"),
     multi_document   |-> Shape(<<"[">>, <<"]">>, FALSE, "multi_document"),
     data_storage     |-> Shape(<<"[", "(">>, <<")", "]">>, TRUE, "data_storage"),
     internal_storage |-> Shape(<<"[">>, <<"]">>, FALSE, "internal_storage"),
     tape_data        |-> Shape(<<"[">>, <<"]">>, FALSE, "tape_data"),
     display          |-> Shape(<<"[">>, <<"]">>, FALSE, "display"),
     manual_operation |-> Shape(<<"[">>, <<"]">>, FALSE, "manual_operation"),
     merge            |-> Shape(<<"[">>, <<"]">>, FALSE, "merge"),
     manual_input     |-> Shape(<<"[", "/">>, <<"/", "]">>, TRUE, "manual_input"),
     subprocess       |-> Shape(<<"[", "[">>, <<"]", "]">>, FALSE, ""),
     database         |-> Shape(<<"[", "(">>, <<")", "]">>, TRUE, ""),
     connector        |-> Shape(<<"(", "(">>, <<")", ")">>, FALSE, ""),
     comment          |-> Shape(<<"[">>, <<"]">>, FALSE, "comment"),
     loop             |-> Shape(<<"{">>, <<"}">>, FALSE, "loop"),
     function         |-> Shape(<<"[", "[">>, <<"]", "]">>, FALSE, "function")]

\* the node patterns of split_node_token, in the order they are tried
NodePatterns ==
    << [open |-> <<"(", "[">>, close |-> <<"]", ")">>, kind |-> "terminal"],
       [open |-> <<"(", "(">>, close |-> <<")", ")">>, kind |-> "connector"],
       [open |-> <<"[", "[">>, close |-> <<"]", "]">>, kind |-> "subprocess"],
       [open |-> <<"[", "(">>, close |-> <<")", "]">>, kind |-> "database"],
       [open |-> <<"[", "/">>, close |-> <<"/", "]">>, kind |-> "io"],
       [open |-> <<"{">>,      close |-> <<"}">>,      kind |-> "decision"],
       [open |-> <<"[">>,      close |-> <<"]">>,      kind |-> "process"],
       [open |-> <<"(">>,      close |-> <<")">>,      kind |-> "process"] >>

get_node_label(n) == n.label
get_node_kind(n) == IF n.kind = "" THEN "process" ELSE n.kind
get_edge_label(e) == e.label
get_edge_variant(e) == IF e.variant = "" THEN "solid" ELSE e.variant

make_node(node_id, label, kind) == [id |-> node_id, label |-> label, kind |-> kind]

make_edge(edge_id, source, target, label, variant) ==
    [id |-> edge_id, source |-> source, target |-> target,
     label |-> label, variant |-> variant]

\* build_edge_id: "e_<hash>_<source>_<target>".  The 8 hex digits of the md5
\* hash are kept as the tuple that is hashed; counter is 0 for an id without
\* the digits that next_edge_id writes after the "e".
build_edge_id(source, target, label, variant, salt) ==
    [counter |-> 0, hash |-> <<source, target, label, variant, salt>>,
     source |-> source, target |-> target]

\* str(i) for a natural number
RECURSIVE int_text(_)
int_text(i) ==
    IF i < 10 THEN <<Digits[i + 1]>>
    ELSE int_text(i \div 10) \o <<Digits[(i % 10) + 1]>>

\* the length of the arrow that re.sub replaces at the head of s, or 0:
\* (-->|==>|-\\.->|--o|--x), where -\\.-> is '-', a backslash, any character, '->'
escaped_arrow_len(s) ==
    IF starts_at(s, 1, <<"-", "-", ">">>) THEN 3
    ELSE IF starts_at(s, 1, <<"=", "=", ">">>) THEN 3
    ELSE IF /\ Len(s) >= 5 /\ s[1] = "-" /\ s[2] = "\\" /\ s[3] # "\n"
            /\ s[4] = "-" /\ s[5] = ">" THEN 5
    ELSE IF starts_at(s, 1, <<"-", "-", "o">>) THEN 3
    ELSE IF starts_at(s, 1, <<"-", "-", "x">>) THEN 3
    ELSE 0

RECURSIVE replace_arrows(_)
replace_arrows(s) ==
    IF s = <<>> THEN <<>>
    ELSE IF escaped_arrow_len(s) > 0
         THEN <<"ARROW_R">> \o replace_arrows(SubSeq(s, escaped_arrow_len(s) + 1, Len(s)))
         ELSE <<Head(s)>> \o replace_arrows(Tail(s))

mermaid_escape_label(label) ==
    LET s1 == replace_any(replace_any(label, << <<"\n">> >>, <<" ">>), << <<"\r">> >>, <<" ">>)
        s2 == replace_any(s1, << <<"|">> >>, <<"/">>)
        s3 == remove_chars(s2, {"[", "]", "(", ")", "{", "}"})
        s4 == replace_arrows(s3)
        s5 == replace_any(s4, << <<"-", ">">> >>, <<"ARROW_R">>)
        s6 == replace_any(s5, << <<"<", "-">> >>, <<"ARROW_L">>)
    IN  strip(collapse_spaces(s6))

\* tpl.format(id=..., label=...)
format_template(tpl, id, label) ==
    LET pad == IF tpl.pad THEN <<" ">> ELSE <<>>
        tag == IF tpl.tag = "" THEN <<>> ELSE <<":", ":", ":", tpl.tag>>
    IN  id \o tpl.open \o pad \o label \o pad \o tpl.close \o tag

node_to_mermaid(n) ==
    LET nid == n.id
        label == mermaid_escape_label(IF get_node_label(n) = <<>> THEN nid ELSE get_node_label(n))
        kind == get_node_kind(n)
        tpl == IF kind \in DOMAIN MERMAID_NODE_TEMPLATES
               THEN MERMAID_NODE_TEMPLATES[kind]
               ELSE MERMAID_NODE_TEMPLATES["process"]
    IN  format_template(tpl, nid, label)

Indent == <<" ", " ", " ", " ">>

node_id_less(a, b) == text_less(a.id, b.id)

\* the order of two edge ids with the same source and target: the order of
\* their md5 digits, taken here as the order of the hashed (label, variant, salt)
hash_less(hx, hy) ==
    \/ text_less(hx[3], hy[3])
    \/ hx[3] = hy[3] /\ variant_rank(hx[4]) < variant_rank(hy[4])
    \/ hx[3] = hy[3] /\ hx[4] = hy[4] /\ text_less(hx[5], hy[5])

\* what follows the "e" of an id "e<counter>_<source>_<target>"
counter_id_text(x) == int_text(x.counter) \o <<"_">> \o x.source \o <<"_">> \o x.target

\* an id with a counter starts with "e" and a digit and stands before an id
\* with a hash, which starts with "e_"
edge_id_less(x, y) ==
    IF x.counter # 0 /\ y.counter # 0
    THEN text_less(counter_id_text(x), counter_id_text(y))
    ELSE IF x.counter # 0 \/ y.counter # 0 THEN x.counter # 0
    ELSE hash_less(x.hash, y.hash)

\* key=lambda x: (x.source, x.target, x.id)
edge_less(a, b) ==
    \/ text_less(a.source, b.source)
    \/ a.source = b.source /\ text_less(a.target, b.target)
    \/ a.source = b.source /\ a.target = b.target /\ edge_id_less(a.id, b.id)

edge_to_mermaid(e) ==
    LET lbl == mermaid_escape_label(get_edge_label(e))
        variant == get_edge_variant(e)
        arrow == IF variant \in DOMAIN EDGE_VARIANT_TO_ARROW
                 THEN EDGE_VARIANT_TO_ARROW[variant]
                 ELSE EDGE_VARIANT_TO_ARROW["solid"]
    IN  IF lbl # <<>>
        THEN Indent \o e.source \o <<" ">> \o arrow \o <<"|">> \o lbl \o <<"|", " ">> \o e.target
        ELSE Indent \o e.source \o <<" ">> \o arrow \o <<" ">> \o e.target

\* generate_mermaid: the lines that "\n".join puts together; no line holds a
\* line break (labels are escaped), so splitlines() gives the same lines back
generate_mermaid(ns, es, direction) ==
    LET sn == sorted(ns, node_id_less)
        se == sorted(es, edge_less)
    IN  << <<"flowchart", " ", direction>> >>
        \o [i \in 1..Len(sn) |-> Indent \o node_to_mermaid(sn[i])]
        \o [i \in 1..Len(se) |-> edge_to_mermaid(se[i])]

-----------------------------------------------------------------------------
(* Export generator *)

\* EXPORT_NODE_TEMPLATES: the shapes of MERMAID_NODE_TEMPLATES without class tags
EXPORT_NODE_TEMPLATES ==
    [k \in DOMAIN MERMAID_NODE_TEMPLATES |-> [MERMAID_NODE_TEMPLATES[k] EXCEPT !.tag = ""]]

\* the length of what (-->|==>|-\\.->|--o|--x|<-->|->|<-) matches at the head
\* of s, or 0
export_arrow_len(s) ==
    IF escaped_arrow_len(s) > 0 THEN escaped_arrow_len(s)
    ELSE IF starts_at(s, 1, <<"<", "-", "-", ">">>) THEN 4
    ELSE IF starts_at(s, 1, <<"-", ">">>) THEN 2
    ELSE IF starts_at(s, 1, <<"<", "-">>) THEN 2
    ELSE 0

RECURSIVE remove_arrows(_)
remove_arrows(s) ==
    IF s = <<>> THEN <<>>
    ELSE IF export_arrow_len(s) > 0
         THEN remove_arrows(SubSeq(s, export_arrow_len(s) + 1, Len(s)))
         ELSE <<Head(s)>> \o remove_arrows(Tail(s))

\* [0-9A-Za-z...\\s.,;:!?+*/=%-]: letters, digits, the Turkish letters, a
\* backslash and the listed signs; white space is not among them
is_export_char(c) ==
    c \in (Range(UpperCase) \cup Range(LowerCase) \cup Range(Digits)
           \cup {"DOTLESS_I", "S_CEDILLA", "C_CEDILLA", "\\",
                 ".", ",", ";", ":", "!", "?", "+", "*", "/", "=", "%", "-"})

sanitize_export_label(label, fallback) ==
    LET s1 == strip(replace_any(replace_any(label, << <<"\n">> >>, <<" ">>),
                                << <<"\r">> >>, <<" ">>))
        s2 == replace_any(s1, << <<"|">> >>, <<"/">>)
        s3 == remove_chars(s2, {"[", "]", "(", ")", "{", "}", "<", ">"})
        s4 == remove_arrows(s3)
        s5 == remove_chars(s4, {"ARROW_R", "ARROW_L"})
        s6 == remove_chars(s5, {"BACKTICK", "\"", "APOSTROPHE"})
        s7 == SelectSeq(s6, is_export_char)
        s8 == strip(collapse_spaces(s7))
    IN  IF s8 = <<>> /\ fallback # <<>> THEN fallback ELSE s8

\* str.upper() of a direction word; "lr" is the one word of the model written
\* in small letters
direction_upper(d) == IF d = "lr" THEN "LR" ELSE d

export_direction(direction) ==
    LET d == direction_upper(IF direction = "" THEN DEFAULT_DIRECTION ELSE direction)
    IN  IF d \notin {"TD", "TB", "LR", "RL", "BT"} THEN "TD" ELSE d

\* id_map.get(nid, nid): "n<i>" for the i-th node of the sorted list; of two
\* nodes with the same id the later one gives the id
export_id(sn, nid) ==
    IF \E i \in DOMAIN sn : sn[i].id = nid
    THEN <<"n">> \o int_text(CHOOSE i \in DOMAIN sn :
                                 sn[i].id = nid /\ \A j \in DOMAIN sn : sn[j].id = nid => j <= i)
    ELSE nid

export_node_line(sn, n) ==
    LET safe_id == export_id(sn, n.id)
        label == sanitize_export_label(
                     IF get_node_label(n) = <<>> THEN safe_id ELSE get_node_label(n), safe_id)
        kind == get_node_kind(n)
        tpl == IF kind \in DOMAIN EXPORT_NODE_TEMPLATES
               THEN EXPORT_NODE_TEMPLATES[kind]
               ELSE EXPORT_NODE_TEMPLATES["process"]
    IN  Indent \o format_template(tpl, safe_id, label)

export_edge_line(sn, e) ==
    LET src == export_id(sn, e.source)
        tgt == export_id(sn, e.target)
        lbl == sanitize_export_label(get_edge_label(e), <<>>)
        variant == get_edge_variant(e)
        arrow == IF variant \in DOMAIN EDGE_VARIANT_TO_ARROW
                 THEN EDGE_VARIANT_TO_ARROW[variant]
                 ELSE EDGE_VARIANT_TO_ARROW["solid"]
    IN  IF lbl # <<>>
        THEN Indent \o src \o <<" ">> \o arrow \o <<"|">> \o lbl \o <<"|", " ">> \o tgt
        ELSE Indent \o src \o <<" ">> \o arrow \o <<" ">> \o tgt

\* the lines of the export for the nodes and edges in the order they are
\* written
export_lines(sn, se, direction) ==
    << <<"flowchart", " ", export_direction(direction)>> >>
    \o [i \in 1..Len(sn) |-> export_node_line(sn, sn[i])]
    \o [i \in 1..Len(se) |-> export_edge_line(sn, se[i])]

\* generate_mermaid_for_export without the two sorts
generate_mermaid_unsorted(ns, es, direction) == export_lines(ns, es, direction)
generate_mermaid_for_export(ns, es, direction) ==
    export_lines(sorted(ns, node_id_less), sorted(es, edge_less), direction)

-----------------------------------------------------------------------------
(* Parser *)

\* FLOW_HEADER_RE: (flowchart|graph), blanks, a direction, to the end of the line
is_header(line) ==
    /\ Len(line) >= 3
    /\ line[1] \in {"flowchart", "graph"}
    /\ is_space(line[2])
    /\ LET d == strip(SubSeq(line, 2, Len(line)))
       IN  Len(d) = 1 /\ d[1] \in Directions

header_direction(line) == strip(SubSeq(line, 2, Len(line)))[1]

\* the arrow that matches at position p of s (its index in Arrows), or 0
arrow_at(s, p) ==
    IF \E k \in 1..Len(Arrows) : starts_at(s, p, Arrows[k])
    THEN CHOOSE k \in 1..Len(Arrows) :
             /\ starts_at(s, p, Arrows[k])
             /\ \A j \in 1..(k - 1) : ~starts_at(s, p, Arrows[j])
    ELSE 0

\* what follows the arrow at p, without the blanks in front
after_arrow(s, p) == lstrip(SubSeq(s, p + Len(Arrows[arrow_at(s, p)]), Len(s)))

\* the position of the first "|" of r after position 1, or 0
second_pipe(r) ==
    IF \E q \in 2..Len(r) : r[q] = "|"
    THEN CHOOSE q \in 2..Len(r) : r[q] = "|" /\ \A j \in 2..(q - 1) : r[j] # "|"
    ELSE 0

\* EDGE_WITH_PIPE_LABEL_RE with the arrow at p: |label| and a target follow
pipe_tail_ok(s, p) ==
    LET r == after_arrow(s, p)
    IN  /\ r # <<>> /\ r[1] = "|"
        /\ second_pipe(r) >= 3
        /\ strip(SubSeq(r, second_pipe(r) + 1, Len(r))) # <<>>

\* EDGE_SIMPLE_RE with the arrow at p: a target follows
simple_tail_ok(s, p) == strip(SubSeq(s, p + Len(Arrows[arrow_at(s, p)]), Len(s))) # <<>>

\* the arrow positions at which the pattern matches; src is lazy, so the
\* match is the one with the least position
pipe_positions(s) == {p \in 2..Len(s) : arrow_at(s, p) # 0 /\ pipe_tail_ok(s, p)}
simple_positions(s) == {p \in 2..Len(s) : arrow_at(s, p) # 0 /\ simple_tail_ok(s, p)}

least(S) == CHOOSE p \in S : \A q \in S : p <= q

\* the groups of a match of EDGE_WITH_PIPE_LABEL_RE, stripped
pipe_match(s) ==
    LET p == least(pipe_positions(s))
        r == after_arrow(s, p)
    IN  [src   |-> strip(SubSeq(s, 1, p - 1)),
         arrow |-> Arrows[arrow_at(s, p)],
         label |-> strip(SubSeq(r, 2, second_pipe(r) - 1)),
         dst   |-> strip(SubSeq(r, second_pipe(r) + 1, Len(r)))]

\* the groups of a match of EDGE_SIMPLE_RE, stripped
simple_match(s) ==
    LET p == least(simple_positions(s))
    IN  [src   |-> strip(SubSeq(s, 1, p - 1)),
         arrow |-> Arrows[arrow_at(s, p)],
         label |-> <<>>,
         dst   |-> strip(SubSeq(s, p + Len(Arrows[arrow_at(s, p)]), Len(s)))]

\* re.search(r":::(?P<kind>[A-Za-z0-9_\-]+)\s*$", s): the start of the leftmost
\* match, or 0
class_tag_at(s) ==
    LET ok(i) == /\ starts_at(s, i, <<":", ":", ":">>)
                 /\ rstrip(SubSeq(s, i + 3, Len(s))) # <<>>
                 /\ \A c \in Range(rstrip(SubSeq(s, i + 3, Len(s)))) : is_id_char(c)
    IN  IF \E i \in 1..Len(s) : ok(i)
        THEN CHOOSE i \in 1..Len(s) : ok(i) /\ \A j \in 1..(i - 1) : ~ok(j)
        ELSE 0

\* kind_override in NODE_KIND: the tag is one of the kind names
kind_or_override(kind, tag) ==
    IF Len(tag) = 1 /\ tag[1] \in NodeKindNames THEN tag[1] ELSE kind

\* the node pattern pat matches s: an id, blanks, the delimiters around a label
pattern_matches(s, pat) ==
    LET id == id_prefix(s)
        rest == lstrip(SubSeq(s, Len(id) + 1, Len(s)))
    IN  /\ id # <<>>
        /\ Len(rest) >= Len(pat.open) + Len(pat.close)
        /\ starts_at(rest, 1, pat.open)
        /\ starts_at(rest, Len(rest) - Len(pat.close) + 1, pat.close)

pattern_label(s, pat) ==
    LET id == id_prefix(s)
        rest == lstrip(SubSeq(s, Len(id) + 1, Len(s)))
    IN  strip(SubSeq(rest, Len(pat.open) + 1, Len(rest) - Len(pat.close)))

\* split_node_token after the class tag is cut off: s is the token without
\* the tag, tag the tag's name (empty when there is none)
split_tagged_token(s, tag) ==
    LET hits == {k \in 1..Len(NodePatterns) : pattern_matches(s, NodePatterns[k])}
        parts == split_words(s)
    IN  IF hits # {}
        THEN [raised |-> FALSE,
              id     |-> id_prefix(s),
              label  |-> pattern_label(s, NodePatterns[least(hits)]),
              kind   |-> kind_or_override(NodePatterns[least(hits)].kind, tag)]
        ELSE IF s # <<>> /\ id_prefix(s) = s
        THEN [raised |-> FALSE, id |-> s, label |-> s,
              kind |-> kind_or_override("process", tag)]
        ELSE IF parts = <<>>
        THEN [raised |-> TRUE, id |-> <<>>, label |-> <<>>, kind |-> ""]
        ELSE [raised |-> FALSE,
              id     |-> parts[1],
              label  |-> IF Len(parts) > 1 THEN join_words(Tail(parts)) ELSE parts[1],
              kind   |-> kind_or_override("process", tag)]

\* the position of the class tag in the stripped token s0, and what is left
\* of s0 without it
untagged_token(s0, t) == IF t = 0 THEN s0 ELSE strip(SubSeq(s0, 1, t - 1))
class_tag(s0, t) == IF t = 0 THEN <<>> ELSE rstrip(SubSeq(s0, t + 3, Len(s0)))

\* split_node_token: [raised, id, label, kind]; raised when parts[0] does not
\* exist (IndexError on an empty token)
split_stripped_token(s0, t) == split_tagged_token(untagged_token(s0, t), class_tag(s0, t))
split_node_token(token) == split_stripped_token(strip(token), class_tag_at(strip(token)))

\* the first free id nid_2, nid_3, ...
RECURSIVE mint_id(_, _, _)
mint_id(nodes, nid, idx) ==
    IF (nid \o <<"_">> \o int_text(idx)) \in DOMAIN nodes
    THEN mint_id(nodes, nid, idx + 1)
    ELSE nid \o <<"_">> \o int_text(idx)

\* resolve_node_id: the id the expression (nid, label, kind) stands for
resolve_node_id(ps, nid, label, kind) ==
    LET key == <<nid, label, kind>>
    IN  IF key \in DOMAIN ps.alias THEN ps.alias[key]
        ELSE IF nid \notin DOMAIN ps.nodes THEN nid
        ELSE mint_id(ps.nodes, nid, 2)

\* resolve_node_id's entry in alias_map
resolve_alias(ps, nid, label, kind) ==
    LET key == <<nid, label, kind>>
    IN  IF key \in DOMAIN ps.alias THEN ps.alias
        ELSE (key :> resolve_node_id(ps, nid, label, kind)) @@ ps.alias

\* upsert_node
upsert_node(nodes, nid, label, kind) ==
    IF nid \notin DOMAIN nodes
    THEN (nid :> [label |-> label, kind |-> kind]) @@ nodes
    ELSE [nodes EXCEPT
            ![nid] = [label |-> IF @.label = <<>> /\ label # <<>> THEN label ELSE @.label,
                      kind  |-> IF @.kind = "" /\ kind # "" THEN kind ELSE @.kind]]

\* the parser's state before the first line
ParseStart == [nodes |-> <<>>, alias |-> <<>>, edges |-> <<>>, raised |-> FALSE]

\* an edge line: both tokens are split, then resolved (source first), then
\* upserted; "<-->" gives two edges
parse_edge_tokens(ps, m, a, b) ==
    LET src_id == resolve_node_id(ps, a.id, a.label, a.kind)
        ps1 == [ps EXCEPT !.alias = resolve_alias(ps, a.id, a.label, a.kind)]
        dst_id == resolve_node_id(ps1, b.id, b.label, b.kind)
        ps2 == [ps1 EXCEPT !.alias = resolve_alias(ps1, b.id, b.label, b.kind)]
        nodes2 == upsert_node(upsert_node(ps.nodes, src_id, a.label, a.kind),
                              dst_id, b.label, b.kind)
        variant == arrow_variant(m.arrow)
        fwd == [src |-> src_id, dst |-> dst_id, label |-> m.label, variant |-> variant]
        bwd == [src |-> dst_id, dst |-> src_id, label |-> m.label, variant |-> variant]
    IN  IF a.raised \/ b.raised THEN [ps EXCEPT !.raised = TRUE]
        ELSE [ps2 EXCEPT !.nodes = nodes2,
                         !.edges = IF m.arrow = <<"<", "-", "-", ">">>
                                   THEN @ \o <<fwd, bwd>> ELSE Append(@, fwd)]

parse_edge_line(ps, m) ==
    parse_edge_tokens(ps, m, split_node_token(m.src), split_node_token(m.dst))

\* a node line; an exception is swallowed
parse_node_token(ps, a) ==
    IF a.raised THEN ps
    ELSE [ps EXCEPT !.alias = resolve_alias(ps, a.id, a.label, a.kind),
                    !.nodes = upsert_node(ps.nodes,
                                          resolve_node_id(ps, a.id, a.label, a.kind),
                                          a.label, a.kind)]

parse_node_line(ps, line) == parse_node_token(ps, split_node_token(line))

parse_line(ps, line) ==
    IF ps.raised THEN ps
    ELSE IF pipe_positions(line) # {} THEN parse_edge_line(ps, pipe_match(line))
    ELSE IF simple_positions(line) # {} THEN parse_edge_line(ps, simple_match(line))
    ELSE parse_node_line(ps, line)

RECURSIVE parse_lines(_, _)
parse_lines(ps, lines) ==
    IF lines = <<>> THEN ps ELSE parse_lines(parse_line(ps, Head(lines)), Tail(lines))

\* the lines that are kept: stripped, not blank, not a comment, not a header
kept_lines(text) ==
    LET stripped == [i \in 1..Len(text) |-> strip(text[i])]
    IN  SelectSeq(stripped, LAMBDA l :
            l # <<>> /\ ~starts_at(l, 1, <<"%", "%">>) /\ ~is_header(l))

\* the direction of the last header line, or the session's direction
RECURSIVE parsed_direction(_, _)
parsed_direction(text, current) ==
    IF text = <<>> THEN current
    ELSE parsed_direction(Tail(text),
             IF is_header(strip(Head(text))) THEN header_direction(strip(Head(text)))
             ELSE current)

\* key=lambda x: (x[0], x[1], x[2], x[3])
parsed_edge_less(a, b) ==
    \/ text_less(a.src, b.src)
    \/ a.src = b.src /\ text_less(a.dst, b.dst)
    \/ a.src = b.src /\ a.dst = b.dst /\ text_less(a.label, b.label)
    \/ a.src = b.src /\ a.dst = b.dst /\ a.label = b.label
       /\ variant_rank(a.variant) < variant_rank(b.variant)

\* the id of the i-th sorted edge: the base id, or salted with the count of
\* the equal edges up to it
parsed_edge_id(se, i) ==
    LET e == se[i]
        seen == Cardinality({j \in 1..i : se[j] = e})
    IN  IF seen = 1 THEN build_edge_id(e.src, e.dst, e.label, e.variant, <<>>)
        ELSE build_edge_id(e.src, e.dst, e.label, e.variant, int_text(seen))

\* parse_mermaid(code_text), code_text given as its lines:
\* [raised, error, nodes, edges, direction]
\* the node list: the ids sorted, a missing label is the id and a missing kind
\* is "process"
parsed_nodes(node_map, ids) ==
    [i \in 1..Len(ids) |->
        make_node(ids[i],
                  IF node_map[ids[i]].label = <<>> THEN ids[i] ELSE node_map[ids[i]].label,
                  IF node_map[ids[i]].kind = "" THEN "process" ELSE node_map[ids[i]].kind)]

\* the edge list of the sorted edge tuples se
parsed_edges(se) ==
    [i \in 1..Len(se) |->
        make_edge(parsed_edge_id(se, i), se[i].src, se[i].dst, se[i].label, se[i].variant)]

\* what parse_mermaid returns once the lines are read into ps
parse_outcome(ps, direction) ==
    IF ps.raised
    THEN [raised |-> TRUE, error |-> "", nodes |-> <<>>, edges |-> <<>>,
          direction |-> direction]
    ELSE IF DOMAIN ps.nodes = {}
    THEN [raised |-> FALSE, error |-> "no nodes", nodes |-> <<>>, edges |-> <<>>,
          direction |-> direction]
    ELSE [raised |-> FALSE, error |-> "",
          nodes |-> parsed_nodes(ps.nodes, sorted(SetToSeq(DOMAIN ps.nodes), text_less)),
          edges |-> parsed_edges(sorted(ps.edges, parsed_edge_less)),
          direction |-> direction]

parse_mermaid(text, session_direction) ==
    IF \A i \in 1..Len(text) : strip(text[i]) = <<>>
    THEN [raised |-> FALSE, error |-> "empty", nodes |-> <<>>, edges |-> <<>>,
          direction |-> session_direction]
    ELSE parse_outcome(parse_lines(ParseStart, kept_lines(text)),
                       parsed_direction(text, session_direction))

-----------------------------------------------------------------------------
(* Analysis and repair passes *)

\* the start keywords of is_start_node
StartKeywords ==
    { <<"b", "a", "S_CEDILLA", "l", "a">>, <<"b", "a", "s", "l", "a">>,
      <<"s", "t", "a", "r", "t">>, <<"g", "i", "r", "i", "S_CEDILLA">>,
      <<"g", "i", "r", "i", "s">> }

is_start_node(n) ==
    /\ get_node_kind(n) = "terminal"
    /\ \E k \in StartKeywords : contains(lower(get_node_label(n)), k)

\* build_graph: the edges leaving and entering a node id, in list order
out_edges_of(es, nid) == SelectSeq(es, LAMBDA e : e.source = nid)
in_edges_of(es, nid) == SelectSeq(es, LAMBDA e : e.target = nid)

\* the breadth-first search of enforce_connected_flow: the ids visited from roots
RECURSIVE reachable_from(_, _)
reachable_from(es, seen) ==
    LET more == seen \cup {es[i].target : i \in {j \in 1..Len(es) : es[j].source \in seen}}
    IN  IF more = seen THEN seen ELSE reachable_from(es, more)

\* the roots of enforce_connected_flow: the start nodes, else the nodes without
\* an incoming edge, else the first node
flow_roots(ns, es) ==
    LET start_nodes == SelectSeq(ns, is_start_node)
        no_incoming == SelectSeq(ns, LAMBDA n : in_edges_of(es, n.id) = <<>>)
    IN  IF start_nodes # <<>> THEN start_nodes
        ELSE IF no_incoming # <<>> THEN no_incoming
        ELSE <<ns[1]>>

\* the edges that chain the nodes of a graph without edges, in list order
chain_edges(ns) ==
    [i \in 1..(Len(ns) - 1) |->
        make_edge(build_edge_id(ns[i].id, ns[i + 1].id, <<>>, "solid", int_text(i - 1)),
                  ns[i].id, ns[i + 1].id, <<>>, "solid")]

\* the loop that chains the unreached nodes rest (numbered from idx) to tail
RECURSIVE stitch(_, _, _, _)
stitch(es, rest, idx, tail) ==
    IF rest = <<>> THEN es
    ELSE IF Head(rest).id = tail THEN stitch(es, Tail(rest), idx + 1, tail)
    ELSE stitch(Append(es, make_edge(build_edge_id(tail, Head(rest).id, <<>>, "solid",
                                                    <<"f", "i", "x">> \o int_text(idx)),
                                     tail, Head(rest).id, <<>>, "solid")),
                Tail(rest), idx + 1, Head(rest).id)

\* the tail the unreached nodes are chained to: the last reached node that has
\* no outgoing edge, else the first node
stitch_tail(ns, es, reachable) ==
    LET dead_ends == SelectSeq(ns, LAMBDA n : n.id \in reachable /\ out_edges_of(es, n.id) = <<>>)
    IN  IF dead_ends # <<>> THEN Last(dead_ends).id ELSE ns[1].id

\* enforce_connected_flow: the edge list after the pass (the nodes stay)
enforce_connected_flow(ns, es) ==
    IF Len(ns) <= 1 THEN es
    ELSE IF es = <<>> THEN chain_edges(ns)
    ELSE LET roots == flow_roots(ns, es)
             reachable == reachable_from(es, {roots[i].id : i \in 1..Len(roots)})
         IN  IF Cardinality(reachable) < Len(ns)
             THEN stitch(es, SelectSeq(ns, LAMBDA n : n.id \notin reachable), 1,
                         stitch_tail(ns, es, reachable))
             ELSE es

\* normalize_label_text: strip, drop what stands before the first letter, digit
\* or underscore, collapse blanks
RECURSIVE drop_leading_symbols(_)
drop_leading_symbols(s) ==
    IF s # <<>> /\ ~is_word_char(Head(s)) THEN drop_leading_symbols(Tail(s)) ELSE s

normalize_label_text(label) ==
    strip(collapse_spaces(strip(drop_leading_symbols(strip(label)))))

L_Evet == <<"E", "v", "e", "t">>
L_Hayir == <<"H", "a", "y", "DOTLESS_I", "r">>

YesWords ==
    { <<"e", "v", "e", "t">>, <<"y", "e", "s">>, <<"y">>, <<"t", "r", "u", "e">>, <<"t">> }
NoWords ==
    { <<"h", "a", "y", "DOTLESS_I", "r">>, <<"h", "a", "y", "i", "r">>, <<"n", "o">>,
      <<"n">>, <<"f", "a", "l", "s", "e">>, <<"f">> }

normalize_decision_label(value) ==
    LET raw == normalize_label_text(value)
    IN  IF lower(raw) \in YesWords THEN L_Evet
        ELSE IF lower(raw) \in NoWords THEN L_Hayir
        ELSE raw

\* the label of an edge among the first two after the normalising loop
normalized_branch_label(e) ==
    LET current == get_edge_label(e)
        updated == normalize_decision_label(current)
    IN  IF updated # <<>> /\ updated # current THEN updated ELSE current

has_yes(lbl) == contains(lbl, <<"e", "v", "e", "t">>)
has_no(lbl) ==
    \/ contains(lbl, <<"h", "a", "y", "DOTLESS_I", "r">>)
    \/ contains(lbl, <<"h", "a", "y", "i", "r">>)

\* the labels of the first two outgoing edges of a decision node after the pass
decision_pair(l1, l2) ==
    LET a == normalized_branch_label([label |-> l1])
        b == normalized_branch_label([label |-> l2])
        la == lower(strip(a))
        lb == lower(strip(b))
    IN  IF la = <<>> /\ lb = <<>> THEN <<L_Evet, L_Hayir>>
        ELSE <<IF ~(has_yes(la) \/ has_yes(lb)) THEN L_Evet ELSE a,
               IF ~(has_no(la) \/ has_no(lb)) THEN L_Hayir ELSE b>>

\* the positions in es of the edges that leave nid, in list order
out_positions(es, nid) ==
    LET idx == {i \in 1..Len(es) : es[i].source = nid}
    IN  sorted(SetToSeq(idx), LAMBDA i, j : i < j)

\* the body of the loop without the test of the node's kind
label_decision_node_any_kind(es, n) ==
    LET out == out_positions(es, n.id)
    IN  IF Len(out) < 2 THEN es
        ELSE LET pair == decision_pair(get_edge_label(es[out[1]]), get_edge_label(es[out[2]]))
             IN  [es EXCEPT ![out[1]].label = pair[1], ![out[2]].label = pair[2]]
\* the body of ensure_decision_edge_labels's loop for the node n
label_decision_node(es, n) ==
    LET out == out_positions(es, n.id)
    IN  IF get_node_kind(n) # "decision" \/ Len(out) < 2 THEN es
        ELSE LET pair == decision_pair(get_edge_label(es[out[1]]), get_edge_label(es[out[2]]))
             IN  [es EXCEPT ![out[1]].label = pair[1], ![out[2]].label = pair[2]]

\* ensure_decision_edge_labels: the edge list after the pass
RECURSIVE ensure_decision_edge_labels(_, _)
ensure_decision_edge_labels(ns, es) ==
    IF ns = <<>> THEN es
    ELSE ensure_decision_edge_labels(Tail(ns), label_decision_node(es, Head(ns)))

-----------------------------------------------------------------------------
(* Analysis: detect_cycle and validate_flow *)

\* the end keywords of is_end_node
EndKeywords ==
    { <<"b", "i", "t", "i", "r">>, <<"s", "o", "n">>, <<"e", "n", "d">>,
      <<"C_CEDILLA", "DOTLESS_I", "k", "DOTLESS_I", "S_CEDILLA">>,
      <<"c", "i", "k", "i", "s">> }

is_end_node(n) ==
    /\ get_node_kind(n) = "terminal"
    /\ \E k \in EndKeywords : contains(lower(get_node_label(n)), k)

\* the colours of detect_cycle: an id in neither set is unseen (0), an id of
\* visiting is 1, an id of done is 2
color_of_two(color, nid) == IF nid \in color.visiting \cup color.done THEN 1 ELSE 0
color_of(color, nid) ==
    IF nid \in color.visiting THEN 1 ELSE IF nid \in color.done THEN 2 ELSE 0

\* dfs of detect_cycle from the point where nid is being visited and outs are
\* its outgoing edges still to be looked at; [found, color] when it returns
RECURSIVE dfs_edges(_, _, _, _)
dfs_next(r, es, nid, outs) ==
    IF r.found THEN r ELSE dfs_edges(r.color, es, nid, outs)

dfs_edges(color, es, nid, outs) ==
    IF outs = <<>>
    THEN [found |-> FALSE,
          color |-> [visiting |-> color.visiting \ {nid}, done |-> color.done \cup {nid}]]
    ELSE IF color_of(color, Head(outs).target) = 1
    THEN [found |-> TRUE, color |-> color]
    ELSE IF color_of(color, Head(outs).target) = 0
    THEN dfs_next(dfs_edges([color EXCEPT !.visiting = @ \cup {Head(outs).target}], es,
                            Head(outs).target, out_edges_of(es, Head(outs).target)),
                  es, nid, Tail(outs))
    ELSE dfs_edges(color, es, nid, Tail(outs))

dfs(color, es, nid) ==
    dfs_edges([color EXCEPT !.visiting = @ \cup {nid}], es, nid, out_edges_of(es, nid))

\* the loop of detect_cycle over the node ids still to be started from
RECURSIVE detect_cycle_from(_, _, _)
detect_cycle_from(color, es, ids) ==
    IF ids = <<>> THEN FALSE
    ELSE IF color_of(color, Head(ids)) # 0 THEN detect_cycle_from(color, es, Tail(ids))
    ELSE IF dfs(color, es, Head(ids)).found THEN TRUE
    ELSE detect_cycle_from(dfs(color, es, Head(ids)).color, es, Tail(ids))

detect_cycle(ns, es) ==
    detect_cycle_from([visiting |-> {}, done |-> {}], es, [i \in DOMAIN ns |-> ns[i].id])

ValidationItem(level, message, ids) == [level |-> level, message |-> message, ids |-> ids]

node_ids(ns) == [i \in DOMAIN ns |-> ns[i].id]

\* the items validate_flow adds for the decision node n
decision_items(es, n) ==
    LET outs == out_edges_of(es, n.id)
        labels == [i \in DOMAIN outs |-> lower(get_edge_label(outs[i]))]
        yes == \E i \in DOMAIN labels : has_yes(labels[i])
        no == \E i \in DOMAIN labels : has_no(labels[i])
    IN  (IF Len(outs) < 2
         THEN <<ValidationItem("warning", "decision needs two exits", <<n.id>>)>>
         ELSE <<>>)
        \o (IF Len(outs) >= 2 /\ (~yes \/ ~no)
            THEN <<ValidationItem("info", "Evet/Hayir labels suggested", <<n.id>>)>>
            ELSE <<>>)

RECURSIVE decision_checks(_, _)
decision_checks(ns, es) ==
    IF ns = <<>> THEN <<>>
    ELSE (IF get_node_kind(Head(ns)) = "decision" THEN decision_items(es, Head(ns)) ELSE <<>>)
         \o decision_checks(Tail(ns), es)

\* the ids validate_flow reaches from the start nodes along the edges
validate_reachable(ns, es) ==
    LET start_nodes == SelectSeq(ns, is_start_node)
    IN  IF start_nodes = <<>> THEN {} ELSE reachable_from(es, Range(node_ids(start_nodes)))

\* validate_flow without the early return on a graph without nodes
validate_flow_checks(ns, es, reachable) ==
    LET start_nodes == SelectSeq(ns, is_start_node)
        end_nodes == SelectSeq(ns, is_end_node)
        unreachable == SelectSeq(ns, LAMBDA n : n.id \notin reachable)
        dead_ends == SelectSeq(ns, LAMBDA n : out_edges_of(es, n.id) = <<>> /\ ~is_end_node(n))
        io_nodes == SelectSeq(ns, LAMBDA n : get_node_kind(n) = "io")
    IN  (IF start_nodes = <<>> THEN <<ValidationItem("error", "no start node", <<>>)>> ELSE <<>>)
        \o (IF end_nodes = <<>> THEN <<ValidationItem("error", "no end node", <<>>)>> ELSE <<>>)
        \o (IF unreachable # <<>>
            THEN <<ValidationItem("warning", "unreachable nodes", node_ids(unreachable))>>
            ELSE <<>>)
        \o (IF dead_ends # <<>>
            THEN <<ValidationItem("warning", "nodes without exit", node_ids(dead_ends))>>
            ELSE <<>>)
        \o decision_checks(ns, es)
        \o (IF io_nodes = <<>> THEN <<ValidationItem("info", "no io node", <<>>)>> ELSE <<>>)
        \o (IF detect_cycle(ns, es) THEN <<ValidationItem("info", "cycle", <<>>)>> ELSE <<>>)
        \o (IF es # <<>> /\ start_nodes # <<>> /\ Cardinality(reachable) < Len(ns)
            THEN <<ValidationItem("warning", "not all reachable from start", <<>>)>>
            ELSE <<>>)

validate_flow_noearly(ns, es) ==
    validate_flow_checks(ns, es, validate_reachable(ns, es))
validate_flow(ns, es) ==
    IF ns = <<>> THEN <<ValidationItem("error", "no nodes", <<>>)>>
    ELSE validate_flow_checks(ns, es, validate_reachable(ns, es))

-----------------------------------------------------------------------------
(* Editing session: snapshots, id counters and the editor's operations *)

\* normalize_state: a node without label gets its id as label, a node without
\* kind is a process
normalize_state(ns) ==
    [i \in DOMAIN ns |->
        make_node(ns[i].id, IF ns[i].label = <<>> THEN ns[i].id ELSE ns[i].label,
                  get_node_kind(ns[i]))]

serialize_nodes(ns) ==
    [i \in DOMAIN ns |->
        [id |-> ns[i].id, label |-> get_node_label(ns[i]), kind |-> get_node_kind(ns[i])]]

serialize_edges(es) ==
    [i \in DOMAIN es |->
        [id |-> es[i].id, source |-> es[i].source, target |-> es[i].target,
         label |-> get_edge_label(es[i]), variant |-> get_edge_variant(es[i])]]

\* the entry that HistoryManager.push stores
HistoryEntry(text, ns, es) ==
    [code_text |-> text, node_snapshot |-> serialize_nodes(ns),
     edge_snapshot |-> serialize_edges(es)]

\* build_state_from_snapshot: the nodes and the edges of the state; every edge
\* of the snapshot becomes an edge
snapshot_nodes(node_snapshot) ==
    [i \in DOMAIN node_snapshot |->
        make_node(node_snapshot[i].id,
                  IF node_snapshot[i].label = <<>> THEN node_snapshot[i].id
                  ELSE node_snapshot[i].label,
                  IF node_snapshot[i].kind = "" THEN "process" ELSE node_snapshot[i].kind)]

snapshot_edges(edge_snapshot) ==
    [i \in DOMAIN edge_snapshot |->
        make_edge(edge_snapshot[i].id, edge_snapshot[i].source, edge_snapshot[i].target,
                  edge_snapshot[i].label,
                  IF edge_snapshot[i].variant = "" THEN "solid" ELSE edge_snapshot[i].variant)]

\* the words of is_generic_process_label
GenericWords ==
    { <<"i", "S_CEDILLA", "l", "e", "m">>, <<"a", "d", "DOTLESS_I", "m">>,
      <<"k", "o", "n", "t", "r", "o", "l">>, <<"s", "U_UMLAUT", "r", "e", "C_CEDILLA">>,
      <<"u", "y", "g", "u", "l", "a">> }

\* re.match(r".*<word>\s*\d+$", text): the text ends with the word, blanks
\* and one digit or more
ends_numbered(text, word) ==
    \E i \in 1..Len(text) : \E j \in (i + Len(word))..Len(text) :
        /\ starts_at(text, i, word)
        /\ \A k \in (i + Len(word))..(j - 1) : is_space(text[k])
        /\ \A k \in j..Len(text) : text[k] \in Range(Digits)

is_generic_process_label(label) ==
    LET text == lower(normalize_label_text(label))
    IN  \/ text = <<>>
        \/ text \in GenericWords
        \/ ends_numbered(text, <<"a", "d", "DOTLESS_I", "m">>)
        \/ ends_numbered(text, <<"s", "t", "e", "p">>)
        \/ Len(split_words(text)) <= 2 /\ \E w \in GenericWords : contains(text, w)

\* the guards of a collapse without the test that the two neighbours differ
can_simplify_loops(es, n) ==
    /\ get_node_kind(n) = "process"
    /\ ~is_start_node(n) /\ ~is_end_node(n)
    /\ is_generic_process_label(get_node_label(n))
    /\ Len(in_edges_of(es, n.id)) = 1 /\ Len(out_edges_of(es, n.id)) = 1
\* simplify_flow_state: the node n is taken out and its two edges are joined
can_simplify(es, n) ==
    /\ get_node_kind(n) = "process"
    /\ ~is_start_node(n) /\ ~is_end_node(n)
    /\ is_generic_process_label(get_node_label(n))
    /\ Len(in_edges_of(es, n.id)) = 1 /\ Len(out_edges_of(es, n.id)) = 1
    /\ in_edges_of(es, n.id)[1].source # out_edges_of(es, n.id)[1].target

\* the edge list of a collapse that keeps the two edges of the node
simplified_edges_kept(es, n) ==
    LET in1 == in_edges_of(es, n.id)[1]
        out1 == out_edges_of(es, n.id)[1]
        new_id == build_edge_id(in1.source, out1.target, <<>>, "solid", <<"s">> \o n.id)
    IN  Append(es, make_edge(new_id, in1.source, out1.target, <<>>, "solid"))
simplified_edges(es, n) ==
    LET in1 == in_edges_of(es, n.id)[1]
        out1 == out_edges_of(es, n.id)[1]
        new_id == build_edge_id(in1.source, out1.target, <<>>, "solid", <<"s">> \o n.id)
    IN  SelectSeq(Append(es, make_edge(new_id, in1.source, out1.target, <<>>, "solid")),
                  LAMBDA e : e.id \notin {in1.id, out1.id})

\* simplify_flow_state: [nodes, edges] when the loop ends
RECURSIVE simplify_flow_state(_, _)
simplify_flow_state(ns, es) ==
    IF \E i \in DOMAIN ns : can_simplify(es, ns[i])
    THEN LET k == CHOOSE i \in DOMAIN ns :
                      can_simplify(es, ns[i]) /\ \A j \in 1..(i - 1) : ~can_simplify(es, ns[j])
         IN  simplify_flow_state(SelectSeq(ns, LAMBDA n : n.id # ns[k].id),
                                 simplified_edges(es, ns[k]))
    ELSE [nodes |-> ns, edges |-> es]

\* extract_direction_from_code(code) or direction: the direction of the first
\* header line
RECURSIVE extract_direction_from_code(_, _)
extract_direction_from_code(text, current) ==
    IF text = <<>> THEN current
    ELSE IF is_header(strip(Head(text))) THEN header_direction(strip(Head(text)))
    ELSE extract_direction_from_code(Tail(text), current)

Maximum(S) == CHOOSE x \in S : \A y \in S : y <= x
Minimum(S) == CHOOSE x \in S : \A y \in S : x <= y

\* int() of a text of digits
RECURSIVE int_of(_)
int_of(ds) ==
    IF ds = <<>> THEN 0
    ELSE 10 * int_of(Front(ds)) + ((CHOOSE i \in 1..10 : Digits[i] = Last(ds)) - 1)

\* the number of an id that matches ^n(\d+)$, else 0
node_index(id) ==
    IF Len(id) >= 2 /\ id[1] = "n" /\ \A i \in 2..Len(id) : id[i] \in Range(Digits)
    THEN int_of(Tail(id)) ELSE 0

\* sync_counters_from_state: node_counter and edge_counter
max_node_index_unsynced(ns) == 1
max_node_index(ns) == Maximum({1} \cup {node_index(ns[i].id) : i \in DOMAIN ns})
max_edge_index(es) == Maximum({1} \cup {es[i].id.counter : i \in DOMAIN es})

\* next_node_id and next_edge_id for the counter before the call
next_node_id(counter) == <<"n">> \o int_text(counter + 1)
next_edge_id(counter, source, target) ==
    [counter |-> counter + 1, hash |-> <<>>, source |-> source, target |-> target]

\* find_node(node_id) is not None
find_node(ns, node_id) == \E i \in DOMAIN ns : ns[i].id = node_id

\* add_node: the label of the edge from src_id to the new node
connect_label(ns, es, src_id) ==
    LET existing == out_edges_of(es, src_id)
    IN  IF ~(\E i \in DOMAIN ns : ns[i].id = src_id /\ get_node_kind(ns[i]) = "decision")
        THEN <<>>
        ELSE IF Len(existing) = 0 THEN L_Evet
        ELSE IF Len(existing) = 1 /\ has_yes(lower(get_edge_label(existing[1]))) THEN L_Hayir
        ELSE <<>>

\* add_node: the edge list after the call; connect_from is <<>> for None
add_node_edges(ns, es, nid, connect_from, counter) ==
    IF connect_from # <<>> /\ connect_from # nid
    THEN Append(es, make_edge(next_edge_id(counter, connect_from, nid), connect_from, nid,
                              connect_label(ns, es, connect_from), "solid"))
    ELSE es

\* add_edge goes through: the ends differ, both are nodes, and no edge with
\* these ends and this label exists
add_edge_accepts_loops(ns, es, source, target, label) ==
    /\ find_node(ns, source) /\ find_node(ns, target)
    /\ ~\E i \in DOMAIN es : es[i].source = source /\ es[i].target = target
                             /\ get_edge_label(es[i]) = label
add_edge_accepts(ns, es, source, target, label) ==
    /\ source # target
    /\ find_node(ns, source) /\ find_node(ns, target)
    /\ ~\E i \in DOMAIN es : es[i].source = source /\ es[i].target = target
                             /\ get_edge_label(es[i]) = label

\* delete_node: the lists without the node and without its edges
delete_node_nodes(ns, node_id) == SelectSeq(ns, LAMBDA n : n.id # node_id)
delete_node_edges(es, node_id) ==
    SelectSeq(es, LAMBDA e : e.source # node_id /\ e.target # node_id)

\* update_edge goes through: the edge is found and the new ends differ
update_edge_accepts(es, edge_id, source, target) ==
    /\ \E i \in DOMAIN es : es[i].id = edge_id
    /\ source # target

\* update_edge: find_edge gives the first edge with the id; its fields are set
update_edge_edges(es, edge_id, label, source, target, variant) ==
    LET k == CHOOSE i \in DOMAIN es : es[i].id = edge_id /\ \A j \in 1..(i - 1) : es[j].id # edge_id
    IN  [es EXCEPT ![k] = make_edge(edge_id, source, target, label, variant)]

reverse_edge_edges(es, edge_id) ==
    LET k == CHOOSE i \in DOMAIN es : es[i].id = edge_id /\ \A j \in 1..(i - 1) : es[j].id # edge_id
    IN  [es EXCEPT ![k] = make_edge(edge_id, es[k].target, es[k].source, es[k].label,
                                    es[k].variant)]

\* delete_edge: the list without the edges that carry the id
delete_edge_edges(es, edge_id) == SelectSeq(es, LAMBDA e : e.id # edge_id)

\* update_node: find_node gives the first node with the id; an empty label
\* falls back to the id, a kind that is no key of NODE_KIND to the node's kind
update_node_nodes(ns, node_id, new_label, new_kind) ==
    LET k == CHOOSE i \in DOMAIN ns : ns[i].id = node_id /\ \A j \in 1..(i - 1) : ns[j].id # node_id
    IN  [ns EXCEPT ![k] = make_node(node_id,
                                    IF strip(new_label) = <<>> THEN node_id ELSE strip(new_label),
                                    IF new_kind \in NodeKindNames THEN new_kind
                                    ELSE get_node_kind(ns[k]))]

-----------------------------------------------------------------------------
(* Spec: any interleaving of push, undo and redo on one HistoryManager *)

\* no text is held and the counters are as sync_counters_from_state leaves them
\* on an empty graph
NoSession ==
    code = <<>> /\ code_text = <<>> /\ node_counter = 1 /\ edge_counter = 1 /\ steps = 0

\* no graph is held
NoGraph ==
    /\ flow_nodes = <<>> /\ flow_edges = <<>> /\ flow_direction = DEFAULT_DIRECTION
    /\ in_nodes = <<>> /\ in_edges = <<>> /\ pass = <<>> /\ result = "none"
    /\ NoSession

Init ==
    /\ HistoryInit
    /\ pushes = 0 /\ branches = 0 /\ discarded = {} /\ fresh = FALSE
    /\ scN = 0 /\ undos = 0 /\ redos = 0 /\ mixed = FALSE
    /\ NoGraph

Push ==
    /\ pushes < MaxPush
    /\ redo_stack # <<>> => branches < MaxBranch
    /\ push(pushes + 1)
    /\ pushes' = pushes + 1
    /\ branches' = IF redo_stack # <<>> THEN branches + 1 ELSE branches
    /\ discarded' = discarded \cup Range(redo_stack)
    /\ fresh' = TRUE
    /\ UNCHANGED <<svars, gvars, evars>>

Undo ==
    /\ undo
    /\ fresh' = (fresh /\ ~can_undo(undo_stack))
    /\ UNCHANGED <<pushes, branches, discarded, svars, gvars, evars>>

Redo ==
    /\ redo
    /\ UNCHANGED <<pushes, branches, discarded, fresh, svars, gvars, evars>>

Next == Push \/ Undo \/ Redo

Spec == Init /\ [][Next]_vars

-----------------------------------------------------------------------------
(* SpecScenario: N pushes into an empty HistoryManager, then undo and redo *)

ScInit ==
    /\ HistoryInit
    /\ pushes = 0 /\ branches = 0 /\ discarded = {} /\ fresh = FALSE
    /\ scN \in 2..MaxN /\ undos = 0 /\ redos = 0 /\ mixed = FALSE
    /\ NoGraph

ScPush ==
    /\ pushes < scN
    /\ push(pushes + 1)
    /\ pushes' = pushes + 1
    /\ fresh' = TRUE
    /\ UNCHANGED <<branches, discarded, svars, gvars, evars>>

ScUndo ==
    /\ pushes = scN
    /\ mixed \/ redos > 0 \/ undos < scN
    /\ undo
    /\ fresh' = (fresh /\ ~can_undo(undo_stack))
    /\ IF mixed \/ redos > 0
       THEN mixed' = TRUE /\ undos' = 0 /\ redos' = 0
       ELSE undos' = undos + 1 /\ UNCHANGED <<redos, mixed>>
    /\ UNCHANGED <<pushes, branches, discarded, scN, gvars, evars>>

ScRedo ==
    /\ pushes = scN
    /\ mixed \/ redos <= MAX_HISTORY
    /\ redo
    /\ redos' = IF mixed THEN 0 ELSE redos + 1
    /\ UNCHANGED <<pushes, branches, discarded, fresh, scN, undos, mixed, gvars, evars>>

ScNext == ScPush \/ ScUndo \/ ScRedo

SpecScenario == ScInit /\ [][ScNext]_vars

-----------------------------------------------------------------------------
(* Input graphs of the passes *)

\* the lists of n different elements of S
RECURSIVE Arrangements(_, _)
Arrangements(S, n) ==
    IF n = 0 THEN {<<>>}
    ELSE UNION {{Append(a, x) : x \in S \ Range(a)} : a \in Arrangements(S, n - 1)}

\* the subsets of S with at most n elements
RECURSIVE SubsetsUpTo(_, _)
SubsetsUpTo(S, n) ==
    IF n = 0 THEN {{}}
    ELSE LET P == SubsetsUpTo(S, n - 1)
         IN  P \cup UNION {{T \cup {x} : x \in S} : T \in P}

\* the lists of n nodes with different ids of Ids, each with a profile of Profiles
NodeLists(Ids, Profiles, n) ==
    UNION {{[i \in 1..n |-> make_node(ids[i], prof[i].label, prof[i].kind)] :
                prof \in [1..n -> Profiles]} : ids \in Arrangements(Ids, n)}

\* no history call was made
HistoryIdle ==
    /\ HistoryInit
    /\ pushes = 0 /\ branches = 0 /\ discarded = {} /\ fresh = FALSE
    /\ scN = 0 /\ undos = 0 /\ redos = 0 /\ mixed = FALSE

\* the session holds the graph the passes start from
HoldsInput ==
    /\ flow_nodes = in_nodes /\ flow_edges = in_edges
    /\ pass = <<>> /\ result = "none"
    /\ NoSession

-----------------------------------------------------------------------------
(* SpecConn: enforce_connected_flow on graphs of 2 or 3 nodes *)

ConnIds == {<<"a">>, <<"b">>, <<"c">>}
ConnProfiles ==
    {[label |-> <<"B", "a", "S_CEDILLA", "l", "a">>, kind |-> "terminal"],
     [label |-> <<"x">>, kind |-> "process"]}
ConnNodeLists == NodeLists(ConnIds, ConnProfiles, 2) \cup NodeLists(ConnIds, ConnProfiles, 3)

plain_edge(s, t) ==
    make_edge(build_edge_id(s, t, <<>>, "solid", <<>>), s, t, <<>>, "solid")

ConnEdgeLists(ns) ==
    {SetToSeq(T) : T \in SubsetsUpTo({plain_edge(a.id, b.id) : a, b \in Range(ns)},
                                     MaxConnEdges)}

ConnInit ==
    /\ HistoryIdle
    /\ in_nodes \in ConnNodeLists
    /\ in_edges \in ConnEdgeLists(in_nodes)
    /\ flow_direction = DEFAULT_DIRECTION
    /\ HoldsInput

EnforceConnectedFlow ==
    /\ Len(pass) < MaxPasses
    /\ flow_edges' = enforce_connected_flow(flow_nodes, flow_edges)
    /\ pass' = Append(pass, "enforce_connected_flow")
    /\ UNCHANGED <<hvars, svars, flow_nodes, flow_direction, in_nodes, in_edges, result, evars>>

ConnNext == EnforceConnectedFlow

SpecConn == ConnInit /\ [][ConnNext]_vars

-----------------------------------------------------------------------------
(* SpecDecision: ensure_decision_edge_labels on a node d with branches *)

DecNodeLists ==
    {<<make_node(<<"d">>, <<"q", "?">>, k),
       make_node(<<"p">>, <<"p">>, "process"),
       make_node(<<"q">>, <<"q">>, "process")>> : k \in {"decision", "process"}}

\* the edges of the input: from the first node to the others and between the others
DecEndpoints(ns) == {<<ns[1].id, ns[2].id>>, <<ns[1].id, ns[3].id>>, <<ns[2].id, ns[3].id>>}
DecLabels == {<<>>, L_Evet, <<"n", "o">>, <<"x">>}

\* the edge list with the endpoints ends and the labels labs
DecEdgeList(ends, labs) ==
    [i \in DOMAIN ends |->
        make_edge(build_edge_id(ends[i][1], ends[i][2], labs[i], "solid", int_text(i)),
                  ends[i][1], ends[i][2], labs[i], "solid")]

DecInit ==
    /\ HistoryIdle
    /\ in_nodes \in DecNodeLists
    /\ \E n \in 0..MaxDecEdges :
          \E ends \in [1..n -> DecEndpoints(in_nodes)], labs \in [1..n -> DecLabels] :
              in_edges = DecEdgeList(ends, labs)
    /\ flow_direction = DEFAULT_DIRECTION
    /\ HoldsInput

EnsureDecisionEdgeLabels ==
    /\ Len(pass) < MaxPasses
    /\ flow_edges' = ensure_decision_edge_labels(flow_nodes, flow_edges)
    /\ pass' = Append(pass, "ensure_decision_edge_labels")
    /\ UNCHANGED <<hvars, svars, flow_nodes, flow_direction, in_nodes, in_edges, result, evars>>

DecNext == EnsureDecisionEdgeLabels

SpecDecision == DecInit /\ [][DecNext]_vars

-----------------------------------------------------------------------------
(* SpecRoundTrip: parse_mermaid(generate_mermaid(G, direction)) *)

\* the profiles of a node: its id as the label, a label that is escaped, a kind
\* other than process
RtProfiles(id) ==
    {[label |-> id, kind |-> "process"],
     [label |-> id, kind |-> "terminal"],
     [label |-> <<"x", "|", "y">>, kind |-> "process"]}

\* the node lists: a, or a and b, each with one of its profiles
RtNodeLists ==
    {<<make_node(<<"a">>, pa.label, pa.kind)>> : pa \in RtProfiles(<<"a">>)}
    \cup {<<make_node(<<"a">>, pa.label, pa.kind), make_node(<<"b">>, pb.label, pb.kind)>> :
             pa \in RtProfiles(<<"a">>), pb \in RtProfiles(<<"b">>)}

RtEdges(ns) ==
    {make_edge(build_edge_id(a.id, b.id, p[1], p[2], <<>>), a.id, b.id, p[1], p[2]) :
        a \in Range(ns), b \in Range(ns),
        p \in {<< <<>>, "solid" >>, << <<"g", "o">>, "solid" >>, << <<>>, "thick" >>}}

RtEdgeLists(ns) == {SetToSeq(T) : T \in SubsetsUpTo(RtEdges(ns), MaxRtEdges)}

RtInit ==
    /\ HistoryIdle
    /\ in_nodes \in RtNodeLists
    /\ in_edges \in RtEdgeLists(in_nodes)
    /\ flow_direction \in {"TD", "LR"}
    /\ HoldsInput

RoundTrip ==
    /\ Len(pass) < MaxPasses
    /\ result' = parse_mermaid(generate_mermaid(flow_nodes, flow_edges, flow_direction),
                               flow_direction)
    /\ flow_nodes' = result'.nodes
    /\ flow_edges' = result'.edges
    /\ flow_direction' = result'.direction
    /\ pass' = Append(pass, "round_trip")
    /\ UNCHANGED <<hvars, svars, in_nodes, in_edges, evars>>

RtNext == RoundTrip

SpecRoundTrip == RtInit /\ [][RtNext]_vars

-----------------------------------------------------------------------------
(* SpecParse: parse_mermaid on a text of a few lines *)

\* the lines a text is made of: node lines, edge lines, a header, a comment, a
\* blank line, tokens that are only a class tag, a line of words
ParseLines ==
    {
      <<"a">>,  \* a
      <<"a", "[", "X", "]">>,  \* a[X]
      <<"a", "{", "Y", "}">>,  \* a{Y}
      <<"a", " ", "-", "-", ">", " ", "b">>,  \* a --> b
      <<"a", " ", "-", "-", ">", " ", ":", ":", ":", "x">>,  \* a --> :::x
      <<":", ":", ":", "x">>,  \* :::x
      <<"%", "%", " ", "c">>,  \* %% c
      <<"flowchart", " ", "LR">>,  \* flowchart LR
      <<"a", " ", "-", "-", ">", " ", "a">>,  \* a --> a
      <<"a", "[", "X", "]", " ", "-", "-", ">", " ", "a", "{", "Y", "}">>,  \* a[X] --> a{Y}
      <<"a", " ", "-", "-", ">", "|", "g", "o", "|", " ", "b">>,  \* a -->|go| b
      <<" ">>,  \* (a blank line)
      <<"a", " ", "b">>   \* a b
    }

\* the texts of at most MaxLines lines
ParseTexts == UNION {[1..n -> ParseLines] : n \in 0..MaxLines}

ParseInit ==
    /\ HistoryIdle
    /\ flow_nodes = <<>> /\ flow_edges = <<>> /\ flow_direction = DEFAULT_DIRECTION
    /\ in_nodes = <<>> /\ in_edges = <<>> /\ pass = <<>> /\ result = "none"
    /\ code \in ParseTexts
    /\ code_text = <<>> /\ node_counter = 1 /\ edge_counter = 1 /\ steps = 0

\* parse_mermaid(code): the call changes nothing of the session
ParseMermaid ==
    /\ pass = <<>>
    /\ result' = parse_mermaid(code, flow_direction)
    /\ pass' = <<"parse_mermaid">>
    /\ UNCHANGED <<hvars, svars, flow_nodes, flow_edges, flow_direction, in_nodes, in_edges,
                   evars>>

ParseNext == ParseMermaid

SpecParse == ParseInit /\ [][ParseNext]_vars

-----------------------------------------------------------------------------
(* SpecAnalysis: validate_flow and detect_cycle on small graphs, with cycles,
   self-loops and edges whose endpoints are not nodes *)

AnProfiles ==
    {[label |-> <<"B", "a", "S_CEDILLA", "l", "a">>, kind |-> "terminal"],
     [label |-> <<"S", "o", "n">>, kind |-> "terminal"],
     [label |-> <<"q", "?">>, kind |-> "decision"],
     [label |-> <<"x">>, kind |-> "io"]}

\* no node, node a, or nodes a and b
AnNodeLists ==
    {<<>>}
    \cup {<<make_node(<<"a">>, p.label, p.kind)>> : p \in AnProfiles}
    \cup {<<make_node(<<"a">>, p.label, p.kind), make_node(<<"b">>, q.label, q.kind)>> :
              p \in AnProfiles, q \in AnProfiles}

\* the endpoints of the edges: a, b and z, which is never a node
AnEndpoints == {<<s, t>> : s \in {<<"a">>, <<"b">>, <<"z">>}, t \in {<<"a">>, <<"b">>, <<"z">>}}
AnLabels == {<<>>, L_Evet}

AnInit ==
    /\ HistoryIdle
    /\ in_nodes \in AnNodeLists
    /\ \E n \in 0..MaxAnEdges :
          \E ends \in [1..n -> AnEndpoints], labs \in [1..n -> AnLabels] :
              in_edges = DecEdgeList(ends, labs)
    /\ flow_direction = DEFAULT_DIRECTION
    /\ HoldsInput

\* a call of validate_flow on the session's graph: it assigns nothing to it
ValidateFlow ==
    /\ pass = <<>>
    /\ result' = validate_flow(flow_nodes, flow_edges)
    /\ pass' = <<"validate_flow">>
    /\ UNCHANGED <<hvars, svars, flow_nodes, flow_edges, flow_direction, in_nodes, in_edges, evars>>

\* a call of detect_cycle on the session's graph
DetectCycle ==
    /\ pass = <<>>
    /\ result' = detect_cycle(flow_nodes, flow_edges)
    /\ pass' = <<"detect_cycle">>
    /\ UNCHANGED <<hvars, svars, flow_nodes, flow_edges, flow_direction, in_nodes, in_edges, evars>>

AnNext == ValidateFlow \/ DetectCycle

SpecAnalysis == AnInit /\ [][AnNext]_vars

\* SpecCycle: detect_cycle on the graphs of the nodes a, b and c, in every
\* order of the node list, with up to MaxCycEdges edges between them, in
\* every order of the edge list
CycNodeLists ==
    {[i \in 1..3 |-> make_node(ids[i], <<"x">>, "process")] :
        ids \in Arrangements({<<"a">>, <<"b">>, <<"c">>}, 3)}
CycEndpoints == {<<s, t>> : s \in {<<"a">>, <<"b">>, <<"c">>}, t \in {<<"a">>, <<"b">>, <<"c">>}}

CycInit ==
    /\ HistoryIdle
    /\ in_nodes \in CycNodeLists
    /\ \E n \in 0..MaxCycEdges :
          \E ends \in [1..n -> CycEndpoints] :
              in_edges = DecEdgeList(ends, [i \in 1..n |-> <<>>])
    /\ flow_direction = DEFAULT_DIRECTION
    /\ HoldsInput

SpecCycle == CycInit /\ [][DetectCycle]_vars

-----------------------------------------------------------------------------
(* SpecExport: generate_mermaid_for_export on one graph whose lists are held
   in two orders: flow_nodes and flow_edges, and in_nodes and in_edges *)

ExpProfiles ==
    {[label |-> <<"B", "a", "S_CEDILLA", "l", "a">>, kind |-> "terminal"],
     [label |-> <<"x", " ", "y">>, kind |-> "process"]}
\* node a, the start, and node b
ExpNodeLists ==
    {<<make_node(<<"a">>, <<"B", "a", "S_CEDILLA", "l", "a">>, "terminal"),
       make_node(<<"b">>, p.label, p.kind)>> : p \in ExpProfiles}
ExpEndpoints == {<<<<"a">>, <<"b">>>>, <<<<"a">>, <<"z">>>>}
ExpLabels == {<<>>, <<"x", "|">>}
ExpDirections == {"lr", "sideways"}

\* the lists that hold the elements of s, each once
Reorderings(s) == {[i \in DOMAIN s |-> s[f[i]]] : f \in {g \in [DOMAIN s -> DOMAIN s] :
                                                          \A i, j \in DOMAIN s : g[i] = g[j] => i = j}}

ExpInit ==
    /\ HistoryIdle
    /\ flow_nodes \in ExpNodeLists
    /\ in_nodes \in Reorderings(flow_nodes)
    /\ \E n \in 0..MaxExpEdges :
          \E ends \in [1..n -> ExpEndpoints], labs \in [1..n -> ExpLabels] :
              /\ flow_edges = DecEdgeList(ends, labs)
              /\ in_edges \in Reorderings(flow_edges)
    /\ flow_direction \in ExpDirections
    /\ pass = <<>> /\ result = "none" /\ code = <<>>
    /\ code_text = <<>> /\ node_counter = 1 /\ edge_counter = 1 /\ steps = 0

\* an export of the graph as the lists ns and es hold it; code keeps the text
\* of the first export
Export(name, ns, es) ==
    /\ Len(pass) < MaxPasses
    /\ result' = generate_mermaid_for_export(ns, es, flow_direction)
    /\ code' = IF pass = <<>> THEN result' ELSE code
    /\ pass' = Append(pass, name)
    /\ UNCHANGED <<hvars, svars, flow_nodes, flow_edges, flow_direction, in_nodes, in_edges,
                   code_text, node_counter, edge_counter, steps>>

ExportSession == Export("export", flow_nodes, flow_edges)
ExportReordered == Export("export reordered", in_nodes, in_edges)

ExpNext == ExportSession \/ ExportReordered

SpecExport == ExpInit /\ [][ExpNext]_vars

-----------------------------------------------------------------------------
(* SpecEditor: one session, from its first run, under the editor's operations.
   Every action is one run of the script: sync_counters_from_state at its
   start, then the handler of the widget that was used. *)

L_Basla == <<"B", "a", "S_CEDILLA", "l", "a">>

\* DEFAULT_CODE
DEFAULT_CODE ==
    << <<"flowchart", " ", "TD">>,
       <<" ", " ", " ", " ", "s", "t", "a", "r", "t", "(", "[">> \o L_Basla \o <<"]", ")">> >>

\* a text with the nodes start, n2 and n3, n2 between the two others
EdGraphText ==
    << <<"flowchart", " ", "LR">>,
       <<"s", "t", "a", "r", "t", "(", "[">> \o L_Basla
           \o <<"]", ")", " ", "-", "-", ">", " ", "n", "2", "[", "s", "t", "e", "p", " ", "1", "]">>,
       <<"n", "2", "[", "s", "t", "e", "p", " ", "1", "]", " ", "-", "-", ">", " ",
         "n", "3", "{", "q", "?", "}">> >>
\* a text with a self-loop
EdLoopText == << <<"a", " ", "-", "-", ">", " ", "a">> >>
\* a text without a node, and a text on which parse_mermaid raises
EdCommentText == << <<"%", "%", " ", "c">> >>
EdTagText == << <<"a", " ", "-", "-", ">", " ", ":", ":", ":", "x">> >>

CodePanelTexts == {EdGraphText, EdLoopText, EdCommentText, EdTagText}
TemplateTexts == {DEFAULT_CODE, <<>>, EdCommentText, EdTagText}
AiCandidates == {<<>>, EdCommentText, EdTagText}

\* the JSON projects that are loaded: [nodes, edges, direction]; z is no node
JsonPayloads ==
    {[nodes |-> <<[id |-> <<"a">>, label |-> <<>>, kind |-> ""]>>,
      edges |-> <<[id |-> next_edge_id(1, <<"a">>, <<"z">>), source |-> <<"a">>,
                   target |-> <<"z">>, label |-> <<>>, variant |-> ""]>>,
      direction |-> ""]}

\* str.strip() of a text given as its lines
RECURSIVE drop_blank_head(_)
drop_blank_head(text) ==
    IF text # <<>> /\ strip(Head(text)) = <<>> THEN drop_blank_head(Tail(text)) ELSE text
RECURSIVE drop_blank_tail(_)
drop_blank_tail(text) ==
    IF text # <<>> /\ strip(Last(text)) = <<>> THEN drop_blank_tail(Front(text)) ELSE text
strip_text(text) ==
    LET t == drop_blank_tail(drop_blank_head(text))
    IN  IF t = <<>> THEN t
        ELSE IF Len(t) = 1 THEN <<strip(t[1])>>
        ELSE <<lstrip(t[1])>> \o SubSeq(t, 2, Len(t) - 1) \o <<rstrip(t[Len(t)])>>

\* clean_ai_code: the code fences taken out, the lines stripped, from the
\* first line that starts a flowchart on
clean_ai_code(text) ==
    LET fence == <<"BACKTICK", "BACKTICK", "BACKTICK">>
        unfenced == [i \in DOMAIN text |->
                        replace_any(text[i], <<fence \o <<"m", "e", "r", "m", "a", "i", "d">>,
                                               fence>>, <<>>)]
        cleaned == strip_text(unfenced)
        lines == SelectSeq([i \in DOMAIN cleaned |-> strip(cleaned[i])], LAMBDA l : l # <<>>)
        starts == {i \in DOMAIN lines : lines[i][1] \in {"flowchart", "graph"}}
    IN  IF text = <<>> THEN text
        ELSE IF starts = {} THEN cleaned
        ELSE SubSeq(lines, Minimum(starts), Len(lines))

\* apply_template: the text that is parsed
apply_template_code(text) == IF strip_text(text) = <<>> THEN DEFAULT_CODE ELSE strip_text(text)

\* parse_mermaid on the texts of the session, for each direction the session
\* can hold
SessionTexts ==
    CodePanelTexts \cup {apply_template_code(t) : t \in TemplateTexts}
    \cup {clean_ai_code(strip_text(t)) : t \in AiCandidates}
session_parse == [t \in SessionTexts, d \in Directions |-> parse_mermaid(t, d)]

\* what no handler of the editor writes
EdFrame == UNCHANGED <<pushes, branches, discarded, fresh, svars, in_nodes, in_edges>>

\* the first run of a session: the state of DEFAULT_CODE, the counters synced,
\* one entry pushed
EdInit ==
    /\ pushes = 0 /\ branches = 0 /\ discarded = {} /\ fresh = FALSE
    /\ scN = 0 /\ undos = 0 /\ redos = 0 /\ mixed = FALSE
    /\ in_nodes = <<>> /\ in_edges = <<>>
    /\ code = DEFAULT_CODE /\ code_text = DEFAULT_CODE
    /\ flow_nodes = session_parse[DEFAULT_CODE, DEFAULT_DIRECTION].nodes
    /\ flow_edges = session_parse[DEFAULT_CODE, DEFAULT_DIRECTION].edges
    /\ flow_direction = session_parse[DEFAULT_CODE, DEFAULT_DIRECTION].direction
    /\ node_counter = max_node_index(flow_nodes)
    /\ edge_counter = max_edge_index(flow_edges)
    /\ undo_stack = push_undo(<<>>, HistoryEntry(code_text, flow_nodes, flow_edges))
    /\ redo_stack = <<>>
    /\ op = "push" /\ ret = None
    /\ pass = <<>> /\ result = "none" /\ steps = 0

\* the run ends: name is the operation, outcome what became of it, text the
\* text it handed to parse_mermaid (code where it handed none)
EdStep(name, outcome, text) ==
    /\ steps < MaxOps
    /\ pass' = <<name>> /\ result' = outcome /\ code' = text
    /\ steps' = steps + 1
    /\ EdFrame

\* a handler that returns before it writes: only the counters were synced
EdReturned(name, outcome, text) ==
    /\ EdStep(name, outcome, text)
    /\ node_counter' = max_node_index(flow_nodes)
    /\ edge_counter' = max_edge_index(flow_edges)
    /\ UNCHANGED <<undo_stack, redo_stack, op, ret, flow_nodes, flow_edges, flow_direction,
                   code_text>>

\* a handler that installs the graph ns, es with the text new_text and pushes it
EdInstalled(name, text, ns, es, direction, new_text, nc, ec) ==
    /\ EdStep(name, "ok", text)
    /\ flow_nodes' = normalize_state(ns)
    /\ flow_edges' = es
    /\ flow_direction' = direction
    /\ code_text' = new_text
    /\ node_counter' = nc /\ edge_counter' = ec
    /\ push(HistoryEntry(new_text, normalize_state(ns), es))

\* the tail of the editing handlers: normalize_state, sync_code_text of the
\* generated text, history.push
EdEdited(name, ns, es, nc, ec) ==
    EdInstalled(name, code, ns, es, flow_direction,
                generate_mermaid(normalize_state(ns), es, flow_direction), nc, ec)

\* the outcome of a parse for the handlers that stop on it
parse_failure(r) == IF r.raised THEN "raised" ELSE IF r.error # "" THEN "error" ELSE ""

\* render_code_panel with code_text written before the text is parsed
CodeEditTextFirst(text, r) ==
    IF parse_failure(r) # ""
    THEN /\ EdStep("code_edit", parse_failure(r), text)
         /\ code_text' = text
         /\ node_counter' = max_node_index(flow_nodes)
         /\ edge_counter' = max_edge_index(flow_edges)
         /\ UNCHANGED <<undo_stack, redo_stack, op, ret, flow_nodes, flow_edges, flow_direction>>
    ELSE EdInstalled("code_edit", text, r.nodes, r.edges, r.direction, text,
                     max_node_index(r.nodes), max_edge_index(r.edges))
\* render_code_panel: the text of the code panel differs from code_text
CodeEditOutcome(text, r) ==
    IF parse_failure(r) # "" THEN EdReturned("code_edit", parse_failure(r), text)
    ELSE EdInstalled("code_edit", text, r.nodes, r.edges, r.direction, text,
                     max_node_index(r.nodes), max_edge_index(r.edges))
CodeEdit ==
    \E text \in CodePanelTexts :
        /\ text # code_text
        /\ CodeEditOutcome(text, session_parse[text, flow_direction])

\* apply_template: a template or a text file is loaded
ApplyTemplateOutcome(text, r) ==
    IF parse_failure(r) # "" THEN EdReturned("load", parse_failure(r), text)
    ELSE EdInstalled("load", text, r.nodes, r.edges, r.direction, text,
                     max_node_index(r.nodes), max_edge_index(r.edges))
ApplyTemplate ==
    \E text \in TemplateTexts :
        ApplyTemplateOutcome(apply_template_code(text),
                             session_parse[apply_template_code(text), flow_direction])

\* apply_ai_flow_template for a candidate that parse_ai_flow_or_fallback
\* turns down: it is empty, or parse_mermaid fails on it
AiOutcome(text, r) ==
    /\ text = <<>> \/ parse_failure(r) # ""
    /\ EdReturned("ai", IF text = <<>> THEN "error" ELSE parse_failure(r), text)
ApplyAiFlowTemplate ==
    \E text \in AiCandidates :
        AiOutcome(clean_ai_code(strip_text(text)),
                  session_parse[clean_ai_code(strip_text(text)), flow_direction])

\* the JSON branch of the file loader
ImportJson ==
    \E data \in JsonPayloads :
        EdInstalled("json_import", code, snapshot_nodes(data.nodes), snapshot_edges(data.edges),
                    IF data.direction = "" THEN flow_direction ELSE data.direction,
                    generate_mermaid(normalize_state(snapshot_nodes(data.nodes)),
                                     snapshot_edges(data.edges),
                                     IF data.direction = "" THEN flow_direction ELSE data.direction),
                    max_node_index(snapshot_nodes(data.nodes)),
                    max_edge_index(snapshot_edges(data.edges)))

\* add_node(kind, label_override, connect_from) with kind "process" and the
\* label "x"; connect_from is None or a node
AddNodeCall(nid, connect_from, nc, ec) ==
    EdEdited("add_node",
             Append(flow_nodes, make_node(nid, <<"x">>, "process")),
             add_node_edges(flow_nodes, flow_edges, nid, connect_from, ec),
             nc + 1,
             IF connect_from # <<>> /\ connect_from # nid THEN ec + 1 ELSE ec)
AddNode ==
    \E connect_from \in {<<>>} \cup Range(node_ids(flow_nodes)) :
        AddNodeCall(next_node_id(max_node_index(flow_nodes)), connect_from,
                    max_node_index(flow_nodes), max_edge_index(flow_edges))

\* add_edge(source, target) between two nodes of the select boxes
AddEdgeCall(source, target, ec) ==
    IF add_edge_accepts(flow_nodes, flow_edges, source, target, <<>>)
    THEN EdEdited("add_edge", flow_nodes,
                  Append(flow_edges, make_edge(next_edge_id(ec, source, target), source, target,
                                               <<>>, "solid")),
                  max_node_index(flow_nodes), ec + 1)
    ELSE EdReturned(IF source = target THEN "add_edge loop" ELSE "add_edge", "returned", code)
AddEdge ==
    \E source \in Range(node_ids(flow_nodes)), target \in Range(node_ids(flow_nodes)) :
        AddEdgeCall(source, target, max_edge_index(flow_edges))

\* update_edge(edge_id, label, edge_type, source, target, variant): the edge
\* keeps its source, label and variant; the target is a node, or z, which is
\* no node
UpdateEdgeCall(e, target) ==
    IF update_edge_accepts(flow_edges, e.id, e.source, target)
    THEN EdEdited("update_edge", flow_nodes,
                  update_edge_edges(flow_edges, e.id, e.label, e.source, target, e.variant),
                  max_node_index(flow_nodes), max_edge_index(flow_edges))
    ELSE EdReturned("update_edge loop", "returned", code)
UpdateEdge ==
    \E i \in DOMAIN flow_edges : \E target \in Range(node_ids(flow_nodes)) \cup {<<"z">>} :
        UpdateEdgeCall(flow_edges[i], target)

\* reverse_edge(edge_id) for an edge of the graph, or for the id of no edge
UnknownEdgeId == next_edge_id(0, <<"z">>, <<"z">>)
ReverseEdgeCall(edge_id) ==
    IF \E i \in DOMAIN flow_edges : flow_edges[i].id = edge_id
    THEN EdEdited("reverse_edge", flow_nodes, reverse_edge_edges(flow_edges, edge_id),
                  max_node_index(flow_nodes), max_edge_index(flow_edges))
    ELSE EdReturned("reverse_edge", "returned", code)
ReverseEdge ==
    \E edge_id \in {flow_edges[i].id : i \in DOMAIN flow_edges} \cup {UnknownEdgeId} :
        ReverseEdgeCall(edge_id)

DeleteEdge ==
    \E i \in DOMAIN flow_edges :
        EdEdited("delete_edge", flow_nodes, delete_edge_edges(flow_edges, flow_edges[i].id),
                 max_node_index(flow_nodes), max_edge_index(flow_edges))

\* update_node(node_id, new_label, new_kind, ...) with the label "q?" and the
\* kind "decision", for a node of the graph or for z, which is no node
UpdateNodeCall(node_id) ==
    IF find_node(flow_nodes, node_id)
    THEN EdEdited("update_node",
                  update_node_nodes(flow_nodes, node_id, <<"q", "?">>, "decision"),
                  flow_edges, max_node_index(flow_nodes), max_edge_index(flow_edges))
    ELSE EdReturned("update_node", "returned", code)
UpdateNode ==
    \E node_id \in Range(node_ids(flow_nodes)) \cup {<<"z">>} : UpdateNodeCall(node_id)

DeleteNode ==
    \E i \in DOMAIN flow_nodes :
        EdEdited("delete_node", delete_node_nodes(flow_nodes, flow_nodes[i].id),
                 delete_node_edges(flow_edges, flow_nodes[i].id),
                 max_node_index(flow_nodes), max_edge_index(flow_edges))

\* the state of a history entry is installed: build_state_from_history,
\* normalize_state, sync_counters_from_state, sync_code_text
EdRestored(name, entry) ==
    /\ EdStep(name, "ok", code)
    /\ flow_nodes' = normalize_state(snapshot_nodes(entry.node_snapshot))
    /\ flow_edges' = snapshot_edges(entry.edge_snapshot)
    /\ flow_direction' = extract_direction_from_code(entry.code_text, flow_direction)
    /\ code_text' = entry.code_text
    /\ node_counter' = max_node_index(snapshot_nodes(entry.node_snapshot))
    /\ edge_counter' = max_edge_index(snapshot_edges(entry.edge_snapshot))

\* the undo button; it is disabled while can_undo() is false
EdUndo ==
    /\ can_undo(undo_stack)
    /\ undo
    /\ EdRestored("undo", undo_ret(undo_stack))

\* the redo button; it is disabled while can_redo() is false
EdRedo ==
    /\ can_redo(redo_stack)
    /\ redo
    /\ EdRestored("redo", Last(redo_stack))

\* enforce_connected_flow and simplify_flow_state applied to the graph that
\* the session holds; they write the graph and nothing else
SessionEnforce ==
    /\ EdStep("enforce_connected_flow", "ok", code)
    /\ flow_edges' = enforce_connected_flow(flow_nodes, flow_edges)
    /\ UNCHANGED <<undo_stack, redo_stack, op, ret, flow_nodes, flow_direction, code_text,
                   node_counter, edge_counter>>

SessionSimplify ==
    /\ EdStep("simplify_flow_state", "ok", code)
    /\ flow_nodes' = simplify_flow_state(flow_nodes, flow_edges).nodes
    /\ flow_edges' = simplify_flow_state(flow_nodes, flow_edges).edges
    /\ UNCHANGED <<undo_stack, redo_stack, op, ret, flow_direction, code_text,
                   node_counter, edge_counter>>

EdNext ==
    \/ CodeEdit \/ ApplyTemplate \/ ApplyAiFlowTemplate \/ ImportJson
    \/ AddNode \/ AddEdge \/ UpdateEdge \/ ReverseEdge \/ DeleteNode
    \/ DeleteEdge \/ UpdateNode
    \/ EdUndo \/ EdRedo \/ SessionEnforce \/ SessionSimplify

SpecEditor == EdInit /\ [][EdNext]_vars

-----------------------------------------------------------------------------
(* SpecSimplify: simplify_flow_state on graphs of 4 nodes, one step for each
   pass of its while loop: a pass that collapses a node, or the pass that
   finds none and ends the call *)

L_Son == <<"S", "o", "n">>
L_Step1 == <<"s", "t", "e", "p", " ", "1">>

\* a is a start node; b is a process node with a generic label or with the
\* label x; c is a process node with a generic label; d is a process node
\* with a generic label or an end node
SimpNodeLists ==
    {<<make_node(<<"a">>, L_Basla, "terminal"),
       make_node(<<"b">>, lb, "process"),
       make_node(<<"c">>, L_Step1, "process"),
       make_node(<<"d">>, pd.label, pd.kind)>> :
        lb \in {L_Step1, <<"x">>},
        pd \in {[label |-> L_Step1, kind |-> "process"], [label |-> L_Son, kind |-> "terminal"]}}

\* an edge with a label and a variant of its own
branch_edge(s, t) ==
    make_edge(build_edge_id(s, t, L_Evet, "dotted", <<>>), s, t, L_Evet, "dotted")

\* the edges of the input: a plain edge for every pair of different nodes, a
\* self-loop at c, and a labelled dotted edge from a to every other node
SimpEdges(ns) ==
    {plain_edge(p[1].id, p[2].id) : p \in {q \in Range(ns) \X Range(ns) : q[1] # q[2]}}
    \cup {plain_edge(ns[3].id, ns[3].id)}
    \cup {branch_edge(ns[1].id, y.id) : y \in Range(ns) \ {ns[1]}}

SimpInit ==
    /\ HistoryIdle
    /\ in_nodes \in SimpNodeLists
    /\ in_edges \in {SetToSeq(T) : T \in SubsetsUpTo(SimpEdges(in_nodes), MaxSimpEdges)}
    /\ flow_direction = DEFAULT_DIRECTION
    /\ HoldsInput

\* the calls of simplify_flow_state that have returned
returned_calls(p) == Len(SelectSeq(p, LAMBDA x : x = "simplify_flow_state"))

\* a pass of the while loop that collapses a node, the first of the node list
\* that can be collapsed; result is the node
SimplifyCollapse ==
    /\ returned_calls(pass) < MaxPasses
    /\ \E i \in DOMAIN flow_nodes :
          /\ can_simplify(flow_edges, flow_nodes[i])
          /\ \A j \in 1..(i - 1) : ~can_simplify(flow_edges, flow_nodes[j])
          /\ flow_nodes' = SelectSeq(flow_nodes, LAMBDA n : n.id # flow_nodes[i].id)
          /\ flow_edges' = simplified_edges(flow_edges, flow_nodes[i])
          /\ result' = flow_nodes[i]
    /\ pass' = Append(pass, "collapse")
    /\ UNCHANGED <<hvars, svars, flow_direction, in_nodes, in_edges, evars>>

\* the pass that changes nothing: the call returns
SimplifyReturn ==
    /\ returned_calls(pass) < MaxPasses
    /\ ~\E i \in DOMAIN flow_nodes : can_simplify(flow_edges, flow_nodes[i])
    /\ pass' = Append(pass, "simplify_flow_state")
    /\ result' = "returned"
    /\ UNCHANGED <<hvars, svars, flow_nodes, flow_edges, flow_direction, in_nodes, in_edges, evars>>

SimpNext == SimplifyCollapse \/ SimplifyReturn

SpecSimplify == SimpInit /\ [][SimpNext]_vars

-----------------------------------------------------------------------------
(* History claims *)

Min(a, b) == IF a < b THEN a ELSE b

\* the k-th undo call of the scenario has just returned, no redo call was made
ScUndoCall == pushes = scN /\ scN > 1 /\ op = "undo" /\ ~mixed /\ redos = 0 /\ undos >= 1

\* C4 as stated: after N > 1 pushes into an empty HistoryManager each of the
\* next N-1 undo calls returns an entry and the following undo call returns None.
C4_Original ==
    ScUndoCall => /\ undos <= scN - 1 => ret # None
                  /\ undos = scN => ret = None

\* C4 amended: after N > 1 pushes into an empty HistoryManager each of the next
\* min(N, 25) - 1 undo calls returns an entry (the snapshot pushed just before
\* the one it pops) and every later undo call returns None.
C4_HistoryFloor ==
    ScUndoCall => /\ undos <= Min(scN, MAX_HISTORY) - 1 => ret = scN - undos
                  /\ undos >= Min(scN, MAX_HISTORY) => ret = None

C4_Witness ==
    /\ ScUndoCall /\ scN = MAX_HISTORY + 1
    /\ undos = MAX_HISTORY /\ ret = None /\ Len(undo_stack) = 1

\* C5: in every reachable state the undo stack holds at most 25 entries, and a
\* push onto a full undo stack evicts exactly the oldest entry and keeps the 25
\* newest in order; redo never brings the undo stack above 25.
C5_PushStep ==
    pushes' = pushes + 1 =>
        IF Len(undo_stack) >= MAX_HISTORY
        THEN /\ Len(undo_stack') = MAX_HISTORY
             /\ \A i \in 1..(MAX_HISTORY - 1) : undo_stack'[i] = undo_stack[i + 1]
             /\ undo_stack'[MAX_HISTORY] = pushes'
        ELSE undo_stack' = Append(undo_stack, pushes')

C5_BoundedUndoStack ==
    /\ [](Len(undo_stack) <= MAX_HISTORY)
    /\ [](Len(undo_stack) + Len(redo_stack) <= MAX_HISTORY)
    /\ [][C5_PushStep]_vars

C5_Witness ==
    /\ op = "redo" /\ ret # None
    /\ Len(undo_stack) = MAX_HISTORY /\ undo_stack[1] > 1

\* C6: after a push the redo stack is empty, can_redo() is false and redo()
\* returns None until an undo returns an entry; a snapshot that was on the redo
\* stack when a push cleared it is never on the redo stack again and is never
\* returned by redo.
C6_NoRedoAcrossPush ==
    /\ fresh => /\ redo_stack = <<>>
                /\ ~can_redo(redo_stack)
                /\ op = "redo" => ret = None
    /\ Range(redo_stack) \cap discarded = {}
    /\ op = "redo" => ret \notin discarded

C6_Witness ==
    /\ fresh /\ op = "redo" /\ ret = None
    /\ discarded # {} /\ Len(undo_stack) >= 2

\* C7: with fewer than 2 entries on the undo stack undo() returns None and
\* leaves both stacks unchanged; no undo call empties a non-empty undo stack or
\* changes its bottom entry.
C7_UndoStep ==
    op' = "undo" =>
        /\ Len(undo_stack) < 2 =>
              ret' = None /\ UNCHANGED <<undo_stack, redo_stack>>
        /\ undo_stack # <<>> =>
              undo_stack' # <<>> /\ undo_stack'[1] = undo_stack[1]

C7_UndoFloor == [][C7_UndoStep]_vars

C7_Witness ==
    /\ op = "undo" /\ ret = None
    /\ Len(undo_stack) = 1 /\ redo_stack # <<>>

\* C8: with at least 2 entries on the undo stack undo() removes exactly the most
\* recent entry, puts it on top of the redo stack, returns the entry that is now
\* on top of the undo stack, and changes no other entry of either stack.
C8_UndoStep ==
    (op' = "undo" /\ Len(undo_stack) >= 2) =>
        /\ undo_stack' = Front(undo_stack)
        /\ redo_stack' = Append(redo_stack, Last(undo_stack))
        /\ ret' = Last(undo_stack')

C8_UndoEffect == [][C8_UndoStep]_vars

C8_Witness ==
    /\ op = "undo" /\ ret # None /\ ret = Last(undo_stack)
    /\ Len(redo_stack) >= 2 /\ Len(undo_stack) >= 2

\* C9: with an empty redo stack redo() returns None and changes neither stack;
\* otherwise it removes the top entry of the redo stack, appends it to the undo
\* stack and returns that entry.
C9_RedoStep ==
    op' = "redo" =>
        IF redo_stack = <<>>
        THEN ret' = None /\ UNCHANGED <<undo_stack, redo_stack>>
        ELSE /\ redo_stack' = Front(redo_stack)
             /\ undo_stack' = Append(undo_stack, Last(redo_stack))
             /\ ret' = Last(redo_stack)

C9_RedoContract == [][C9_RedoStep]_vars

C9_Witness ==
    /\ op = "redo" /\ ret # None /\ ret = Last(undo_stack)
    /\ redo_stack # <<>>

\* the scenario of 30 pushes, all made
Sc30 == scN = 30 /\ pushes = 30

\* the redo calls that follow exactly 24 undo calls
Sc30Redo == Sc30 /\ ~mixed /\ undos = 24 /\ redos >= 1 /\ op = "redo"

\* C10 as stated: after 30 pushes the undo stack length is 25, none of the 6
\* oldest snapshots is returned by any undo or redo call, and after 24 undos the
\* first 24 redo calls return entries and the 25th returns None.
C10_Original ==
    /\ (Sc30 /\ op = "push") => Len(undo_stack) = 25
    /\ Sc30 => ret \notin 1..6
    /\ Sc30Redo => /\ redos <= 24 => ret # None
                   /\ redos = 25 => ret = None

\* C10 amended: after 30 pushes the undo stack length is 25, none of the 5
\* oldest snapshots is returned by any undo or redo call (snapshot 6 is the
\* bottom entry and is returned by the 24th undo), and after 24 undos the first
\* 24 redo calls return entries and the 25th returns None.
C10_ThirtyPushes ==
    /\ (Sc30 /\ op = "push") => Len(undo_stack) = 25
    /\ Sc30 => ret \notin 1..5
    /\ (Sc30 /\ ~mixed /\ redos = 0 /\ undos = 24 /\ op = "undo") => ret = 6
    /\ Sc30Redo => /\ redos <= 24 => ret # None
                   /\ redos = 25 => ret = None

C10_Witness == Sc30Redo /\ redos = 25 /\ ret = None /\ Len(undo_stack) = 25

-----------------------------------------------------------------------------
(* Graph claims *)

NodeFacts(ns) == {<<ns[i].id, ns[i].label, ns[i].kind>> : i \in 1..Len(ns)}
EdgeFacts(es) ==
    {<<es[i].source, es[i].target, es[i].label, es[i].variant>> : i \in 1..Len(es)}

\* C1: for a graph with unique node ids, edges between its nodes and no
\* duplicate edge, parse_mermaid(generate_mermaid(G, dir)) succeeds and gives the
\* same set of nodes on (id, label, kind) and the same set of edges on
\* (source, target, label, variant).
C1_RoundTrip ==
    pass = <<"round_trip">> =>
        /\ result.raised = FALSE
        /\ result.error = ""
        /\ NodeFacts(flow_nodes) = NodeFacts(in_nodes)
        /\ EdgeFacts(flow_edges) = EdgeFacts(in_edges)

\* the start candidates: the start-like nodes, else the nodes without an
\* incoming edge, else the first node
StartCandidates(ns, es) ==
    LET starts == {n \in Range(ns) : is_start_node(n)}
        sources == {n \in Range(ns) : \A i \in 1..Len(es) : es[i].target # n.id}
    IN  IF starts # {} THEN {n.id : n \in starts}
        ELSE IF sources # {} THEN {n.id : n \in sources}
        ELSE {ns[1].id}

\* C2: after enforce_connected_flow on a graph with at least 2 nodes the start
\* candidates are not empty and every node is reachable from them along
\* outgoing edges.
C2_Connectivity ==
    (pass # <<>> /\ Last(pass) = "enforce_connected_flow" /\ Len(flow_nodes) >= 2) =>
        /\ StartCandidates(flow_nodes, flow_edges) # {}
        /\ \A n \in Range(flow_nodes) :
              n.id \in reachable_from(flow_edges, StartCandidates(flow_nodes, flow_edges))

\* C3: after ensure_decision_edge_labels the first two outgoing edges (in list
\* order) of every decision node with at least 2 outgoing edges carry the
\* canonical pair, one "Evet" and one "Hayir" (with dotless i).
C3_DecisionCanon ==
    (pass # <<>> /\ Last(pass) = "ensure_decision_edge_labels") =>
        \A n \in Range(flow_nodes) :
            LET out == out_positions(flow_edges, n.id)
            IN  (get_node_kind(n) = "decision" /\ Len(out) >= 2) =>
                    {flow_edges[out[1]].label, flow_edges[out[2]].label} = {L_Evet, L_Hayir}

\* C11: parse_mermaid returns for every text without raising, and it returns
\* an error exactly when no node was found after all lines were processed.
C11_ParserTotal ==
    pass = <<"parse_mermaid">> =>
        /\ result.raised = FALSE
        /\ (result.error # "") <=> (result.nodes = <<>>)

\* alias_map when parse_mermaid has read all lines of code
parsed_alias == parse_lines(ParseStart, kept_lines(code)).alias

\* C14: within one parse_mermaid call two node expressions with the same raw
\* id and a different label or kind never resolve to the same node id (equal
\* expressions resolve to the same id, alias_map being a function).
C14_NoSilentMerge ==
    (pass = <<"parse_mermaid">> /\ result.raised = FALSE) =>
        \A k1 \in DOMAIN parsed_alias : \A k2 \in DOMAIN parsed_alias :
            (k1[1] = k2[1] /\ k1 # k2) => parsed_alias[k1] # parsed_alias[k2]

\* C16: enforce_connected_flow is idempotent: a pass over a graph that a pass
\* has already repaired leaves the nodes, the edges and the edge ids as they
\* are.
C16_EnforceIdempotent ==
    [][(pass # <<>> /\ Last(pass) = "enforce_connected_flow") =>
           (flow_nodes' = flow_nodes /\ flow_edges' = flow_edges)]_vars

\* C17: ensure_decision_edge_labels is idempotent: a pass over a graph that a
\* pass has already labelled changes no edge.
C17_DecisionIdempotent ==
    [][(pass # <<>> /\ Last(pass) = "ensure_decision_edge_labels") =>
           flow_edges' = flow_edges]_vars

C15_ExportDeterminism ==
    pass # <<>> => result = code

\* the graph was exported from both orders of its lists, which differ in the
\* nodes and in the edges
C15_Witness ==
    /\ Len(pass) = 2 /\ pass[1] # pass[2]
    /\ in_nodes # flow_nodes /\ in_edges # flow_edges

\* C12: a parse that fails changes nothing: when the text of the code panel,
\* a template or file, or an AI candidate fails to parse, the graph, the code
\* text, the direction and both history stacks are what they were before.
C12_FailedParseChangesNothing ==
    [][(pass' \in {<<"code_edit">>, <<"load">>, <<"ai">>} /\ result' \in {"error", "raised"})
          => UNCHANGED <<flow_nodes, flow_edges, code_text, flow_direction,
                         undo_stack, redo_stack>>]_vars

\* a text failed to parse in a session that holds a graph with edges and
\* more than the first history entry
C12_Witness ==
    /\ pass \in {<<"code_edit">>, <<"load">>, <<"ai">>}
    /\ result \in {"error", "raised"}
    /\ flow_edges # <<>> /\ Len(undo_stack) >= 2


\* no edge of es has an endpoint that is no node of ns
endpoints_are_nodes(ns, es) ==
    \A i \in DOMAIN es :
        /\ es[i].source \in Range(node_ids(ns))
        /\ es[i].target \in Range(node_ids(ns))

\* C13: referential integrity: in the graph the session holds after a parse,
\* a JSON import, add_edge, update_edge, reverse_edge, delete_node, undo or
\* redo, the source and the target of every edge are ids of nodes of that
\* graph; an edge of a snapshot or of an update request with an endpoint that
\* is no node is not stored.
C13_ReferentialIntegrity ==
    (pass # <<>> /\ result = "ok"
       /\ pass[1] \in {"code_edit", "load", "json_import", "add_edge", "update_edge",
                       "reverse_edge", "delete_node", "undo", "redo"})
        => endpoints_are_nodes(flow_nodes, flow_edges)


\* no edge of es joins a node to itself
no_self_loop(es) == \A i \in DOMAIN es : es[i].source # es[i].target

\* the operations of the editor that C18 is about, by the name of their step
EditorOps ==
    {"add_edge", "add_edge loop", "update_edge", "update_edge loop", "reverse_edge",
     "add_node", "delete_node", "enforce_connected_flow", "simplify_flow_state"}

\* C18: the editor creates no self-loop: add_edge, update_edge, reverse_edge,
\* add_node, delete_node, enforce_connected_flow and simplify_flow_state
\* applied to a graph without a self-loop give a graph without one; add_edge
\* and update_edge called with source = target leave the graph, the text and
\* the history as they are; parse_mermaid keeps the self-loop of 'a --> a'.
C18_NoEditorSelfLoop ==
    [][/\ (no_self_loop(flow_edges) /\ pass'[1] \in EditorOps) => no_self_loop(flow_edges')
       /\ pass'[1] \in {"add_edge loop", "update_edge loop"}
             => UNCHANGED <<flow_nodes, flow_edges, flow_direction, code_text,
                            undo_stack, redo_stack>>
       /\ (pass'[1] = "code_edit" /\ code' = EdLoopText)
             => (result' = "ok" /\ ~no_self_loop(flow_edges'))]_vars

\* add_edge was called with source = target on a graph that has edges, none
\* of them a self-loop, after an operation that was pushed
C18_Witness ==
    /\ pass = <<"add_edge loop">>
    /\ flow_edges # <<>> /\ no_self_loop(flow_edges)
    /\ Len(undo_stack) >= 2


\* no two nodes of ns share an id
unique_node_ids(ns) == \A i \in DOMAIN ns : \A j \in DOMAIN ns : ns[i].id = ns[j].id => i = j

\* C19: node ids are unique: after every operation of the session (a parse,
\* add_node, delete_node, undo and redo among them, the counters synced at
\* the start of every run) no two nodes of the graph share an id, and the id
\* that next_node_id mints for add_node is the id of no node of the graph.
C19_UniqueNodeIds ==
    [][/\ unique_node_ids(flow_nodes')
       /\ pass'[1] = "add_node" =>
             /\ Len(flow_nodes') = Len(flow_nodes) + 1
             /\ Last(flow_nodes').id \notin Range(node_ids(flow_nodes))]_vars

\* add_node has minted n4 in a graph that holds the parsed nodes n2 and n3
C19_Witness ==
    /\ pass = <<"add_node">>
    /\ Len(flow_nodes) = 4
    /\ Last(flow_nodes).id = <<"n", "4">>
    /\ {<<"n", "2">>, <<"n", "3">>} \subseteq Range(node_ids(flow_nodes))


\* the canonical label that completes the pair with l
complement_label(l) == IF l = L_Evet THEN L_Hayir ELSE L_Evet

\* C21: the missing decision label is filled: when the first two outgoing
\* edges of a decision node carry one empty label and one of "Evet" and
\* "Hayır", in either order, then after ensure_decision_edge_labels the edge
\* that had no label carries the other label of the pair and the edge that
\* had a label keeps it.
C21_FillsMissingLabel ==
    pass = <<"ensure_decision_edge_labels">> =>
        \A n \in Range(in_nodes) :
            LET out == out_positions(in_edges, n.id)
            IN  (get_node_kind(n) = "decision" /\ Len(out) >= 2) =>
                    \A k \in {1, 2} :
                        (/\ in_edges[out[k]].label = <<>>
                         /\ in_edges[out[3 - k]].label \in {L_Evet, L_Hayir})
                        =>
                        /\ flow_edges[out[k]].label = complement_label(in_edges[out[3 - k]].label)
                        /\ flow_edges[out[3 - k]].label = in_edges[out[3 - k]].label


branch_positions(ns, es) ==
    UNION {{out_positions(es, n.id)[1], out_positions(es, n.id)[2]} :
              n \in {m \in Range(ns) : get_node_kind(m) = "decision"
                                        /\ Len(out_positions(es, m.id)) >= 2}}

\* C23: the frame of ensure_decision_edge_labels: a pass keeps the nodes and
\* the number and order of the edges, changes no id, source, target or
\* variant, and changes the label of an edge only if the edge is one of the
\* first two outgoing edges of a decision node with at least 2 outgoing edges.
C23_DecisionFrame ==
    [][(pass' # <<>> /\ Last(pass') = "ensure_decision_edge_labels") =>
          /\ flow_nodes' = flow_nodes
          /\ Len(flow_edges') = Len(flow_edges)
          /\ \A i \in DOMAIN flow_edges :
                /\ flow_edges'[i].id = flow_edges[i].id
                /\ flow_edges'[i].source = flow_edges[i].source
                /\ flow_edges'[i].target = flow_edges[i].target
                /\ flow_edges'[i].variant = flow_edges[i].variant
                /\ i \notin branch_positions(flow_nodes, flow_edges)
                      => flow_edges'[i].label = flow_edges[i].label]_vars

\* a pass has written labels on a graph whose decision node has a third
\* outgoing edge, which carries a label
C23_Witness ==
    /\ pass = <<"ensure_decision_edge_labels">>
    /\ flow_edges # in_edges
    /\ get_node_kind(in_nodes[1]) = "decision"
    /\ Len(in_edges) = 3
    /\ \A i \in 1..3 : in_edges[i].source = <<"d">>
    /\ in_edges[3].label = <<"x">>


\* the positions in es of the edges that enter, and that leave, the node nid
in_positions(es, nid) == {i \in DOMAIN es : es[i].target = nid}
leave_positions(es, nid) == {i \in DOMAIN es : es[i].source = nid}

\* the collapse of the node n took the graph ns, es to ms, fs: n was a
\* process node with a generic label, one edge s -> n and one edge n -> t
\* with s # t; ms is ns without n; fs is es without these two edges, the
\* others as they were and in their order, and one edge s -> t after them
collapse_frame(ns, es, ms, fs, n) ==
    /\ n \in Range(ns)
    /\ get_node_kind(n) = "process" /\ is_generic_process_label(get_node_label(n))
    /\ ms = SelectSeq(ns, LAMBDA m : m # n) /\ Len(ms) = Len(ns) - 1
    /\ Cardinality(in_positions(es, n.id)) = 1
    /\ Cardinality(leave_positions(es, n.id)) = 1
    /\ \A i \in in_positions(es, n.id) : \A o \in leave_positions(es, n.id) :
          /\ es[i].source # es[o].target
          /\ Len(fs) = Len(es) - 1
          /\ Front(fs) = SelectSeq(es, LAMBDA e : e # es[i] /\ e # es[o])
          /\ Last(fs).source = es[i].source /\ Last(fs).target = es[o].target
    /\ endpoints_are_nodes(ns, es) => endpoints_are_nodes(ms, fs)

\* C24: the frame of simplify_flow_state: each collapse removes one process
\* node with a generic label that has exactly one inbound edge s -> n and one
\* outbound edge n -> t with s # t, removes these two edges and adds one edge
\* s -> t; every other node and every other edge, with its id, label and
\* variant, stays, and every edge still joins nodes of the graph.
C24_SimplifyFrame ==
    [][(pass' # <<>> /\ Last(pass') = "collapse") =>
          collapse_frame(flow_nodes, flow_edges, flow_nodes', flow_edges', result')]_vars

\* a node was collapsed next to an edge that carries a label and stays
C24_Witness ==
    /\ pass = <<"collapse">>
    /\ Len(flow_edges) = 2
    /\ \E i \in DOMAIN flow_edges :
          flow_edges[i].label = L_Evet /\ flow_edges[i] \in Range(in_edges)


\* the passes of the call in progress (or of the last call) that collapsed a node
RECURSIVE last_collapses(_)
last_collapses(p) ==
    IF p = <<>> \/ Last(p) # "collapse" THEN 0 ELSE 1 + last_collapses(Front(p))

\* a process node of ns with a generic label, exactly one inbound and exactly
\* one outbound edge, the two from and to different nodes
collapsible(ns, es) ==
    {n \in Range(ns) :
        /\ get_node_kind(n) = "process" /\ is_generic_process_label(get_node_label(n))
        /\ Cardinality(in_positions(es, n.id)) = 1
        /\ Cardinality(leave_positions(es, n.id)) = 1
        /\ \A i \in in_positions(es, n.id) : \A o \in leave_positions(es, n.id) :
              es[i].source # es[o].target}

\* the edges of es are the steps of the path p (a list of ids) and nothing
\* else, and the nodes of ns inside the path are process nodes with a
\* generic label
is_generic_chain(ns, es, p) ==
    /\ Len(es) = Len(p) - 1
    /\ \A k \in 1..(Len(p) - 1) : \E i \in DOMAIN es : es[i].source = p[k] /\ es[i].target = p[k + 1]
    /\ \A k \in 2..(Len(p) - 1) : \E n \in Range(ns) :
          n.id = p[k] /\ get_node_kind(n) = "process"
          /\ is_generic_process_label(get_node_label(n))

\* what holds when a call of simplify_flow_state on the graph ns, es has
\* returned with the graph ms, fs
simplify_returned(ns, es, ms, fs) ==
    /\ collapsible(ms, fs) = {}
    /\ \A p \in Arrangements(Range(node_ids(ns)), 3) \cup Arrangements(Range(node_ids(ns)), 4) :
          is_generic_chain(ns, es, p) =>
              /\ Len(fs) = 1
              /\ fs[1].source = p[1] /\ fs[1].target = p[Len(p)]
              /\ Range(node_ids(ms)) = Range(node_ids(ns)) \ {p[k] : k \in 2..(Len(p) - 1)}

\* C25: simplify_flow_state ends and reaches a fixed point: every pass of the
\* loop that does not end the call removes a node, so the call returns after
\* at most one collapse for each node; when it has returned no process node
\* with a generic label, one inbound and one outbound edge from and to
\* different nodes is left, and a chain of generic process nodes between two
\* other nodes has become one edge between these two; a second call changes
\* nothing.
C25_SimplifyFixedPoint ==
    [][/\ returned_calls(pass) = 0 =>
             /\ last_collapses(pass') <= Len(in_nodes)
             /\ Last(pass') = "collapse" => Len(flow_nodes') = Len(in_nodes) - last_collapses(pass')
       /\ Last(pass') = "simplify_flow_state" =>
             simplify_returned(in_nodes, in_edges, flow_nodes', flow_edges')
       /\ returned_calls(pass) >= 1 => (flow_nodes' = flow_nodes /\ flow_edges' = flow_edges)]_vars

\* the second call has returned on the chain a -> b -> c -> d, which the
\* first call collapsed in two passes
C25_Witness ==
    /\ pass = <<"collapse", "collapse", "simplify_flow_state", "simplify_flow_state">>
    /\ is_generic_chain(in_nodes, in_edges, <<<<"a">>, <<"b">>, <<"c">>, <<"d">>>>)


\* the graph has a cycle: some edge leads to a node from which the source of
\* the edge is reached
has_cycle(es) == \E i \in DOMAIN es : es[i].source \in reachable_from(es, {es[i].target})

fanout_diagnostics(items, nid) ==
    {i \in DOMAIN items :
        /\ items[i].ids = <<nid>>
        /\ items[i].message \in {"decision needs two exits", "Evet/Hayir labels suggested"}}

\* one of the first two edges that leave nid carries a yes or a no label
first_two_match(es, nid) ==
    LET outs == out_edges_of(es, nid)
    IN  \E i \in DOMAIN outs :
            /\ i <= 2
            /\ \/ has_yes(lower(get_edge_label(outs[i])))
               \/ has_no(lower(get_edge_label(outs[i])))

\* C27: validate_flow reports a fan-out diagnostic for a decision node exactly
\* when fewer than two edges leave it or neither of the first two edges that
\* leave it carries a yes or a no label
C27_FanoutDiagnostics ==
    (pass = <<"validate_flow">> /\ flow_nodes # <<>>) =>
        \A k \in DOMAIN flow_nodes :
            get_node_kind(flow_nodes[k]) = "decision" =>
                (fanout_diagnostics(result, flow_nodes[k].id) # {}
                    <=> (\/ Len(out_edges_of(flow_edges, flow_nodes[k].id)) < 2
                         \/ ~first_two_match(flow_edges, flow_nodes[k].id)))


\* a well-formed node expression: an id, optionally one of the shape delimiter
\* pairs around a label, optionally a ":::tag"
well_formed_node(line) ==
    LET s0 == strip(line)
        s == untagged_token(s0, class_tag_at(s0))
    IN  \/ \E k \in 1..Len(NodePatterns) : pattern_matches(s, NodePatterns[k])
        \/ s # <<>> /\ id_prefix(s) = s

\* a line that is not blank, not a comment, not a header, not an edge line and
\* not a well-formed node expression
unrecognised(line) ==
    LET l == strip(line)
    IN  /\ l # <<>>
        /\ ~starts_at(l, 1, <<"%", "%">>)
        /\ ~is_header(l)
        /\ pipe_positions(l) = {}
        /\ simple_positions(l) = {}
        /\ ~well_formed_node(l)

without_unrecognised(text) == SelectSeq(text, LAMBDA l : ~unrecognised(l))

parsed_graph(r) == [raised |-> r.raised, nodes |-> r.nodes, edges |-> r.edges]

\* C28: the graph parse_mermaid returns for a text is the graph it returns for
\* the text without its unrecognised lines, and such a line raises nothing
C28_UnrecognisedIgnored ==
    pass = <<"parse_mermaid">> =>
        parsed_graph(result)
            = parsed_graph(parse_mermaid(without_unrecognised(code), flow_direction))


\* C29: a redo right after an undo that went through returns the entry that
\* was on top before the undo and puts both stacks back as they were; an undo
\* right after a redo that went through puts both stacks back as they were
\* before the redo; the two stacks never hold more than MAX_HISTORY entries
\* together
C29_UndoRedoInverse ==
    [][/\ (op' = "undo" /\ ret' # None) =>
             /\ can_redo(redo_stack')
             /\ Last(redo_stack') = Last(undo_stack)
             /\ redo_undo(undo_stack', redo_stack') = undo_stack
             /\ Front(redo_stack') = redo_stack
       /\ (op' = "redo" /\ ret' # None) =>
             /\ can_undo(undo_stack')
             /\ Front(undo_stack') = undo_stack
             /\ Append(redo_stack', Last(undo_stack')) = redo_stack
       /\ Len(undo_stack) + Len(redo_stack) <= MAX_HISTORY
       /\ Len(undo_stack') + Len(redo_stack') <= MAX_HISTORY]_vars

\* a redo has put back the entry an undo took from a full undo stack
C29_Witness ==
    /\ op = "redo" /\ ret # None
    /\ ret = Last(undo_stack)
    /\ redo_stack = <<>>
    /\ Len(undo_stack) = MAX_HISTORY


\* the session actions that change the graph
GraphActions ==
    {"add_node", "add_edge", "delete_node", "delete_edge", "update_node", "update_edge",
     "reverse_edge", "code_edit", "load"}

\* the entry holds the text and the serialized graph
mirrors(entry, text, ns, es) ==
    /\ entry.code_text = text
    /\ entry.node_snapshot = serialize_nodes(ns)
    /\ entry.edge_snapshot = serialize_edges(es)

============================================================================
